---- MODULE Spec2Model ----
(***************************************************************************)
(* Stock Moon Dashboard: the analysis core.                                *)
(*   Temporal Aligner  (src/src/data_alignment.py)                         *)
(*   Metrics Engine    (src/src/metrics_calculator.py)                     *)
(* A date is a proleptic Gregorian ordinal (datetime.date.toordinal()); a  *)
(* timestamp is a record [day, hour, tz] with tz "naive", "utc" or a zone  *)
(* with a fixed offset from UTC.                                           *)
(***************************************************************************)
EXTENDS Integers, Sequences, FiniteSets, TLC

VARIABLES target_timezone, stock_data, moon_data, trading_stock_data, aligned_data,
          corrected_data, align_pc, align_error,
          combined_input, rolling_window, metrics_data, metrics_again,
          metrics_pc, analysis_error, analysis_results, scipy_p,
          stock_dicts, moon_dicts, construction, request, moon_entity,
          stock_entity, combined_entity, entity_pc, entity_error,
          correlation_args, interpretation,
          memory_cache, cache_files, writers, now, calls, last_call, latest_set,
          call_args, thread_pc, frames, returned

\* a run of create_aligned_dataset
align_vars == <<target_timezone, stock_data, moon_data, trading_stock_data, aligned_data,
                corrected_data, align_pc, align_error>>

\* a run of calculate_all_metrics and of what follows it
metrics_vars == <<combined_input, rolling_window, metrics_data, metrics_again,
                  metrics_pc, analysis_error, analysis_results, scipy_p>>

\* the construction of entities: the dicts of a pipeline run, or the request
\* for one MoonData or one StockData and what was built from it
entity_vars == <<stock_dicts, moon_dicts, construction, request, moon_entity,
                 stock_entity, combined_entity, entity_pc, entity_error>>

\* a call of _interpret_correlation and the text it returned
interpret_vars == <<correlation_args, interpretation>>

\* the state of the parts that take no part in a run of the pipeline
\* a CacheManager: its memory cache, the files of its cache directory, the
\* threads of _set_to_disk_async that have not ended, the clock, and the
\* calls made so far with what the last one returned
cache_vars == <<memory_cache, cache_files, writers, now, calls, last_call, latest_set>>

\* the analysis invocations that run at the same time: the arguments of
\* each, the position of its thread, the local variables of the calls, and
\* what each returned
concurrent_vars == <<call_args, thread_pc, frames, returned>>

aux_vars == <<interpret_vars, cache_vars, concurrent_vars>>

vars == <<align_vars, metrics_vars, entity_vars, aux_vars>>

(***************************************************************************)
(* Bounds of the model.                                                    *)
(***************************************************************************)
\* the input window holds the day offsets 0..MaxDay
MaxDay == 4
\* most records in the primary (stock) input
MaxStock == 3
\* most records in the secondary (moon) input
MaxMoon == 2
\* most records in the input of the Metrics Engine (the long inputs apart)
MaxLen == 4
\* the rolling windows are 1..MaxWindow
MaxWindow == 3

(***************************************************************************)
(* Generic helpers.                                                        *)
(***************************************************************************)
MinOf(S) == CHOOSE x \in S : \A y \in S : x <= y

MaxOf(S) == CHOOSE x \in S : \A y \in S : x >= y

AbsInt(x) == IF x < 0 THEN -x ELSE x

RECURSIVE SetToSortedSeq(_)
\* sorted(set_of_dates)
SetToSortedSeq(S) ==
    IF S = {} THEN <<>>
    ELSE LET m == MinOf(S) IN <<m>> \o SetToSortedSeq(S \ {m})

Reverse(s) == [i \in 1..Len(s) |-> s[Len(s) + 1 - i]]

(***************************************************************************)
(* The calendar: datetime.date arithmetic.                                 *)
(***************************************************************************)
IsLeap(y) == (y % 4 = 0) /\ ((y % 100 # 0) \/ (y % 400 = 0))

DaysBeforeYear(y) ==
    LET p == y - 1 IN p * 365 + (p \div 4) - (p \div 100) + (p \div 400)

DaysInMonth(y, m) ==
    IF m = 2 THEN (IF IsLeap(y) THEN 29 ELSE 28)
    ELSE IF m \in {4, 6, 9, 11} THEN 30 ELSE 31

RECURSIVE DaysBeforeMonth(_, _)
DaysBeforeMonth(y, m) ==
    IF m = 1 THEN 0 ELSE DaysBeforeMonth(y, m - 1) + DaysInMonth(y, m - 1)

\* datetime(y, m, d).date() as an ordinal
Ymd(y, m, d) == DaysBeforeYear(y) + DaysBeforeMonth(y, m) + d

\* date.weekday(): Monday = 0 .. Sunday = 6
Weekday(ord) == (ord + 6) % 7

\* the years the model's calendar can tell apart
ModelYears == 2022..2027

YearOf(ord) == CHOOSE y \in ModelYears : Ymd(y, 1, 1) <= ord /\ ord < Ymd(y + 1, 1, 1)

(***************************************************************************)
(* Timestamps and timezone normalisation.                                  *)
(***************************************************************************)
\* utcoffset() in hours of the zones of the model
UtcOffsetHours(tz) == IF tz = "cet" THEN 1 ELSE 0

\* dt.astimezone(timezone.utc): the same instant, on the UTC wall clock
AsTimezoneUtc(dt) ==
    LET total == dt.hour - UtcOffsetHours(dt.tz)
    IN  [day |-> dt.day + (total \div 24), hour |-> total % 24, tz |-> "utc"]

\* DataAligner._normalize_datetime_to_utc
NormalizeDatetimeToUtc(dt) ==
    IF dt.tz = "naive" THEN [dt EXCEPT !.tz = "utc"]
    ELSE IF dt.tz # "utc" THEN AsTimezoneUtc(dt)
    ELSE dt

\* datetime.date()
DateOf(dt) == dt.day

\* the order of two aware datetimes: by instant
Instant(dt) == (dt.day * 24 + dt.hour) - UtcOffsetHours(dt.tz)

(***************************************************************************)
(* Tradability: DataAligner._get_market_holidays, _get_nth_weekday,        *)
(* _is_trading_day.                                                        *)
(***************************************************************************)
\* DataAligner._get_nth_weekday(year, month, weekday, n)
GetNthWeekday(year, month, weekday, n) ==
    LET first_day == Ymd(year, month, 1)
        days_to_add == (weekday - Weekday(first_day)) % 7
        first_occurrence == first_day + days_to_add
    IN  first_occurrence + 7 * (n - 1)

\* the five holidays the loop body of _get_market_holidays adds for one year
HolidaysOfYear(year) ==
    LET thanksgiving == GetNthWeekday(year, 11, 3, 4)
    IN  {Ymd(year, 1, 1), Ymd(year, 7, 4), Ymd(year, 12, 25),
         thanksgiving, thanksgiving + 1}

\* range(2023, 2026)
HolidayYears == 2023..2025

\* self.market_holidays, computed once in __init__
MarketHolidays == UNION {HolidaysOfYear(y) : y \in HolidayYears}

\* DataAligner._is_trading_day(date)
IsTradingDay(date) ==
    IF Weekday(date) >= 5 THEN FALSE
    ELSE IF date \in MarketHolidays THEN FALSE
    ELSE TRUE

(***************************************************************************)
(* Entities (src/src/data_models.py).  An Optional[float] that is None is  *)
(* the empty tuple.                                                        *)
(***************************************************************************)
None == <<>>

\* StockData.is_trading_day(): weekday only
StockIsTradingDay(stock) == Weekday(DateOf(stock.date)) < 5

\* DataFactory.create_combined_data_point(stock_data, moon_data)
CreateCombinedDataPoint(stock, moon) ==
    [date |-> stock.date,
     open |-> stock.open, high |-> stock.high, low |-> stock.low,
     close |-> stock.close, volume |-> stock.volume,
     daily_return |-> stock.daily_return,
     abs_return |-> stock.abs_return,
     volatility_7d |-> stock.volatility_7d,
     phase_code |-> moon.phase_code,
     illumination |-> moon.illumination,
     days_from_full_moon |-> moon.days_from_full_moon,
     is_full_moon_window |-> moon.is_full_moon_window,
     trading_day |-> StockIsTradingDay(stock),
     anomaly_score |-> None]

(***************************************************************************)
(* Temporal Aligner (src/src/data_alignment.py).                           *)
(***************************************************************************)
\* target_timezone: str = 'UTC' of DataAligner.__init__ and of
\* create_aligned_dataset, by the zone tag of the model
DefaultTimezone == "utc"

\* DataAligner.__init__(target_timezone): the attributes of the object.  No
\* method reads target_tz.
NewDataAligner(zone) == [target_tz |-> zone, market_holidays |-> MarketHolidays]

\* DataAligner.normalize_timestamps_to_utc, one list: a new list of new
\* records that differ from the old ones in the date only
NormalizeTimestampsToUtc(data) ==
    [i \in 1..Len(data) |-> [data[i] EXCEPT !.date = NormalizeDatetimeToUtc(data[i].date)]]

\* {x.date.date(): x for x in data}: a later record replaces an earlier one
DictByDate(data) ==
    LET keys == {DateOf(data[i].date) : i \in 1..Len(data)}
    IN  [d \in keys |->
            data[MaxOf({i \in 1..Len(data) : DateOf(data[i].date) = d})]]

\* DataAligner.handle_market_closures(stock_data)
HandleMarketClosures(stock) ==
    SelectSeq(stock, LAMBDA s : IsTradingDay(DateOf(s.date)))

\* range(1, 4) of _find_closest_moon_data
MaxOffset == 3

RECURSIVE FindClosestFromNextFirst(_, _, _)
\* mutant of FindClosestFrom: the next day is tried before the previous day
FindClosestFromNextFirst(offset, target_date, moon_by_date) ==
    IF offset > MaxOffset THEN <<>>
    ELSE IF (target_date + offset) \in DOMAIN moon_by_date
         THEN <<moon_by_date[target_date + offset]>>
    ELSE IF (target_date - offset) \in DOMAIN moon_by_date
         THEN <<moon_by_date[target_date - offset]>>
    ELSE FindClosestFromNextFirst(offset + 1, target_date, moon_by_date)

RECURSIVE FindClosestFrom(_, _, _)
\* the loop of _find_closest_moon_data from offset on: previous day first
FindClosestFrom(offset, target_date, moon_by_date) ==
    IF offset > MaxOffset THEN <<>>
    ELSE IF (target_date - offset) \in DOMAIN moon_by_date
         THEN <<moon_by_date[target_date - offset]>>
    ELSE IF (target_date + offset) \in DOMAIN moon_by_date
         THEN <<moon_by_date[target_date + offset]>>
    ELSE FindClosestFrom(offset + 1, target_date, moon_by_date)

\* DataAligner._find_closest_moon_data: <<moon>>, or <<>> for None
FindClosestMoonData(target_date, moon_by_date) ==
    IF target_date \in DOMAIN moon_by_date
    THEN <<moon_by_date[target_date]>>
    ELSE FindClosestFrom(1, target_date, moon_by_date)

RECURSIVE InsertByDate(_, _)
\* one step of a stable sort on key x.date
InsertByDate(sorted, x) ==
    IF sorted = <<>> THEN <<x>>
    ELSE IF Instant(sorted[Len(sorted)].date) <= Instant(x.date)
         THEN Append(sorted, x)
    ELSE Append(InsertByDate(SubSeq(sorted, 1, Len(sorted) - 1), x), sorted[Len(sorted)])

RECURSIVE SortByDate(_)
\* sorted(data, key=lambda x: x.date) / list.sort(key=...): stable
SortByDate(data) ==
    IF data = <<>> THEN <<>>
    ELSE InsertByDate(SortByDate(SubSeq(data, 1, Len(data) - 1)), data[Len(data)])

RECURSIVE FilledPoints(_, _, _)
\* the loop over missing_dates of _fill_missing_trading_days: the points it appends
FilledPoints(missing_dates, stock_by_date, moon_by_date) ==
    IF missing_dates = <<>> THEN <<>>
    ELSE LET missing_date == Head(missing_dates)
             rest == FilledPoints(Tail(missing_dates), stock_by_date, moon_by_date)
         IN  IF missing_date \in DOMAIN stock_by_date
             THEN LET moon == FindClosestMoonData(missing_date, moon_by_date)
                  IN  IF moon # <<>>
                      THEN <<CreateCombinedDataPoint(stock_by_date[missing_date], moon[1])>> \o rest
                      ELSE rest
             ELSE rest

\* mutant of FillMissingTradingDays: the filled points are appended and the
\* list is not sorted again
FillMissingTradingDaysUnsorted(combined_data, stock_by_date, moon_by_date) ==
    IF combined_data = <<>> THEN combined_data
    ELSE LET dates == {DateOf(combined_data[i].date) : i \in 1..Len(combined_data)}
             all_trading_days == {d \in MinOf(dates)..MaxOf(dates) : IsTradingDay(d)}
             missing_dates == SetToSortedSeq(all_trading_days \ dates)
         IN  combined_data \o FilledPoints(missing_dates, stock_by_date, moon_by_date)

\* mutant of FillMissingTradingDays: the trading days are those between the
\* first and the last date of the primary records
FillMissingTradingDaysOfStockRange(combined_data, stock_by_date, moon_by_date) ==
    IF combined_data = <<>> THEN combined_data
    ELSE LET dates == {DateOf(combined_data[i].date) : i \in 1..Len(combined_data)}
             start_date == MinOf(DOMAIN stock_by_date)
             end_date == MaxOf(DOMAIN stock_by_date)
             all_trading_days == {d \in start_date..end_date : IsTradingDay(d)}
             missing_dates == SetToSortedSeq(all_trading_days \ dates)
         IN  IF missing_dates = <<>> THEN combined_data
             ELSE SortByDate(combined_data
                             \o FilledPoints(missing_dates, stock_by_date, moon_by_date))

\* DataAligner._fill_missing_trading_days
FillMissingTradingDays(combined_data, stock_by_date, moon_by_date) ==
    IF combined_data = <<>> THEN combined_data
    ELSE LET dates == {DateOf(combined_data[i].date) : i \in 1..Len(combined_data)}
             start_date == MinOf(dates)
             end_date == MaxOf(dates)
             all_trading_days == {d \in start_date..end_date : IsTradingDay(d)}
             missing_dates == SetToSortedSeq(all_trading_days \ dates)
         IN  IF missing_dates = <<>> THEN combined_data
             ELSE SortByDate(combined_data
                             \o FilledPoints(missing_dates, stock_by_date, moon_by_date))

\* the same-date join of align_data_by_trading_dates: the loop over
\* sorted(common_dates)
InitialJoin(stock_by_date, moon_by_date) ==
    LET common_dates == (DOMAIN stock_by_date) \cap (DOMAIN moon_by_date)
        trading == SetToSortedSeq({d \in common_dates : IsTradingDay(d)})
    IN  [i \in 1..Len(trading) |->
            CreateCombinedDataPoint(stock_by_date[trading[i]], moon_by_date[trading[i]])]

\* DataAligner.align_data_by_trading_dates: the error raised ("none" when it
\* returns) and the list returned
AlignDataByTradingDates(stock, moon) ==
    LET stock_by_date == DictByDate(NormalizeTimestampsToUtc(stock))
        moon_by_date == DictByDate(NormalizeTimestampsToUtc(moon))
        common_dates == (DOMAIN stock_by_date) \cap (DOMAIN moon_by_date)
    IN  IF common_dates = {}
        THEN [error |-> "ValidationError", data |-> <<>>]
        ELSE [error |-> "none",
              data |-> FillMissingTradingDays(InitialJoin(stock_by_date, moon_by_date),
                                              stock_by_date, moon_by_date)]

\* DataAligner.correct_timezone_misalignments
CorrectTimezoneMisalignments(data_points) ==
    [i \in 1..Len(data_points) |->
        [data_points[i] EXCEPT !.date = NormalizeDatetimeToUtc(data_points[i].date)]]

\* validate_data_alignment(combined_data)
ValidateDataAlignment(combined) ==
    IF combined = <<>> THEN FALSE
    ELSE IF \E i \in 1..(Len(combined) - 1) :
                Instant(combined[i].date) > Instant(combined[i + 1].date) THEN FALSE
    ELSE IF \E i, j \in 1..Len(combined) : i # j /\ combined[i].date = combined[j].date
         THEN FALSE
    ELSE IF Cardinality({combined[i].date.tz : i \in 1..Len(combined)}) > 1 THEN FALSE
    ELSE TRUE

(***************************************************************************)
(* Exact arithmetic for the float fields: a number is <<numerator,         *)
(* denominator>> in lowest terms, the denominator positive.                *)
(***************************************************************************)
RECURSIVE Gcd(_, _)
Gcd(a, b) == IF b = 0 THEN a ELSE Gcd(b, a % b)

Rat(n, d) ==
    LET g == Gcd(AbsInt(n), AbsInt(d))
        sgn == IF d < 0 THEN -1 ELSE 1
    IN  <<(sgn * n) \div g, (sgn * d) \div g>>

Zero == Rat(0, 1)

RatAdd(a, b) ==
    LET l == (a[2] * b[2]) \div Gcd(a[2], b[2])
    IN  Rat(a[1] * (l \div a[2]) + b[1] * (l \div b[2]), l)

RatSub(a, b) == RatAdd(a, <<-b[1], b[2]>>)

RatMul(a, b) ==
    LET g1 == Gcd(AbsInt(a[1]), b[2])
        g2 == Gcd(AbsInt(b[1]), a[2])
    IN  Rat((a[1] \div g1) * (b[1] \div g2), (a[2] \div g2) * (b[2] \div g1))

RatAbs(a) == <<AbsInt(a[1]), a[2]>>

RECURSIVE RatSum(_)
RatSum(xs) == IF xs = <<>> THEN Zero ELSE RatAdd(Head(xs), RatSum(Tail(xs)))

\* numpy.std(xs, ddof=1), squared: the sum of the squared deviations from the
\* mean over len(xs) - 1.  A standard deviation is held as its square.
SampleVariance(xs) ==
    LET n == Len(xs)
        mean == RatMul(RatSum(xs), Rat(1, n))
        dev2 == [i \in 1..n |-> LET e == RatSub(xs[i], mean) IN RatMul(e, e)]
    IN  RatMul(RatSum(dev2), Rat(1, n - 1))

(***************************************************************************)
(* Metrics Engine (src/src/metrics_calculator.py).  Indices are Python's:  *)
(* record i of a list is data_points[i + 1].                                *)
(***************************************************************************)
\* StockMetricsCalculator.calculate_daily_return(current_price, previous_price)
CalculateDailyReturn(current_price, previous_price) ==
    IF previous_price <= 0 THEN Zero
    ELSE Rat((current_price - previous_price) * 100, previous_price)

RECURSIVE WindowReturns(_, _, _)
\* the loop of calculate_rolling_volatility: the returns of the records
\* from .. to, the record 0 skipped
WindowReturns(data_points, from, to) ==
    IF from > to THEN <<>>
    ELSE (IF from > 0
          THEN <<CalculateDailyReturn(data_points[from + 1].close, data_points[from].close)>>
          ELSE <<>>)
         \o WindowReturns(data_points, from + 1, to)

RECURSIVE StoredReturns(_, _, _)
\* the daily_return fields the records from .. to already hold
StoredReturns(data_points, from, to) ==
    IF from > to THEN <<>>
    ELSE (IF data_points[from + 1].daily_return # None
          THEN <<data_points[from + 1].daily_return>> ELSE <<>>)
         \o StoredReturns(data_points, from + 1, to)

\* mutant of CalculateRollingVolatility: the window is read from the
\* daily_return fields of the records instead of being recomputed
CalculateRollingVolatilityStored(data_points, current_index, window_size) ==
    IF current_index < window_size THEN None
    ELSE LET returns == StoredReturns(data_points,
                            IF current_index - window_size + 1 > 0
                            THEN current_index - window_size + 1 ELSE 0,
                            current_index)
         IN  IF Len(returns) < 2 THEN None ELSE SampleVariance(returns)

\* mutant of CalculateRollingVolatility: the first window_size + 1 records
\* are left without a value
CalculateRollingVolatilityLate(data_points, current_index, window_size) ==
    IF current_index <= window_size THEN None
    ELSE LET returns == WindowReturns(data_points,
                            IF current_index - window_size + 1 > 0
                            THEN current_index - window_size + 1 ELSE 0,
                            current_index)
         IN  IF Len(returns) < 2 THEN None ELSE SampleVariance(returns)

\* mutant of CalculateRollingVolatility: the value is defined one record
\* earlier, from the returns the shortened window holds
CalculateRollingVolatilityEarly(data_points, current_index, window_size) ==
    IF current_index < window_size - 1 THEN None
    ELSE LET returns == WindowReturns(data_points,
                            IF current_index - window_size + 1 > 0
                            THEN current_index - window_size + 1 ELSE 0,
                            current_index)
         IN  IF Len(returns) < 2 THEN None ELSE SampleVariance(returns)

\* StockMetricsCalculator.calculate_rolling_volatility
CalculateRollingVolatility(data_points, current_index, window_size) ==
    IF current_index < window_size THEN None
    ELSE LET returns == WindowReturns(data_points,
                            IF current_index - window_size + 1 > 0
                            THEN current_index - window_size + 1 ELSE 0,
                            current_index)
         IN  IF Len(returns) < 2 THEN None ELSE SampleVariance(returns)

\* StockMetricsCalculator.calculate_stock_metrics
CalculateStockMetrics(data_points, rolling_window_) ==
    IF Len(data_points) < 2 THEN data_points
    ELSE [k \in 1..Len(data_points) |->
            LET i == k - 1
                point == data_points[k]
                daily_return_ == IF i > 0
                                 THEN CalculateDailyReturn(point.close, data_points[k - 1].close)
                                 ELSE Zero
                abs_return_ == IF i > 0 THEN RatAbs(daily_return_) ELSE Zero
                volatility == CalculateRollingVolatility(data_points, i, rolling_window_)
            IN  [date |-> point.date,
                 open |-> point.open, high |-> point.high, low |-> point.low,
                 close |-> point.close, volume |-> point.volume,
                 daily_return |-> daily_return_,
                 abs_return |-> abs_return_,
                 volatility_7d |-> volatility,
                 phase_code |-> point.phase_code,
                 illumination |-> point.illumination,
                 days_from_full_moon |-> point.days_from_full_moon,
                 is_full_moon_window |-> point.is_full_moon_window,
                 trading_day |-> point.trading_day,
                 anomaly_score |-> point.anomaly_score]]

\* expected_ranges of validate_phase_consistency, in tenths of a percent
ExpectedRange(phase_code) ==
    IF phase_code = 0 THEN <<0, 125>>
    ELSE IF phase_code \in {1, 7} THEN <<125, 375>>
    ELSE IF phase_code \in {2, 6} THEN <<375, 625>>
    ELSE IF phase_code \in {3, 5} THEN <<625, 875>>
    ELSE IF phase_code = 4 THEN <<875, 1000>>
    ELSE <<0, 1000>>

\* the condition under which validate_phase_consistency logs its warning
PhaseIlluminationMismatch(phase_code, illumination) ==
    ~(ExpectedRange(phase_code)[1] <= 10 * illumination
        /\ 10 * illumination <= ExpectedRange(phase_code)[2])

\* mutant of ValidatePhaseConsistency: a mismatching phase is replaced by a
\* phase whose range holds the illumination
ValidatePhaseConsistencyFixing(phase_code, illumination, days_from_full) ==
    IF PhaseIlluminationMismatch(phase_code, illumination)
    THEN CHOOSE ph \in 0..7 : ~PhaseIlluminationMismatch(ph, illumination)
    ELSE phase_code

\* MoonMetricsCalculator.validate_phase_consistency: warns, returns phase_code
ValidatePhaseConsistency(phase_code, illumination, days_from_full) == phase_code

\* MoonMetricsCalculator.validate_moon_metrics
ValidateMoonMetrics(data_points) ==
    [k \in 1..Len(data_points) |->
        LET point == data_points[k]
            validated_phase == ValidatePhaseConsistency(point.phase_code,
                                   point.illumination, point.days_from_full_moon)
        IN  [date |-> point.date,
             open |-> point.open, high |-> point.high, low |-> point.low,
             close |-> point.close, volume |-> point.volume,
             daily_return |-> point.daily_return,
             abs_return |-> point.abs_return,
             volatility_7d |-> point.volatility_7d,
             phase_code |-> validated_phase,
             illumination |-> point.illumination,
             days_from_full_moon |-> point.days_from_full_moon,
             is_full_moon_window |-> point.is_full_moon_window,
             trading_day |-> point.trading_day,
             anomaly_score |-> point.anomaly_score]]

\* MetricsCalculator.calculate_all_metrics(combined_data, rolling_window)
CalculateAllMetrics(data, rolling_window_) ==
    IF data = <<>> THEN data
    ELSE ValidateMoonMetrics(CalculateStockMetrics(SortByDate(data), rolling_window_))

\* mutant of CallerListAfterSorted: list.sort() orders the caller's list
CallerListAfterSort(data) == SortByDate(data)

\* the caller's list after sorted(combined_data, key=...): sorted() builds a
\* new list and leaves its argument as it was
CallerListAfterSorted(data) == data

\* the floor of perform_comprehensive_analysis
MinAnalysisPoints == 10

\* the floor taken as the last length that raises
PerformComprehensiveAnalysisErrorInclusive(data) ==
    IF Len(data) <= MinAnalysisPoints THEN "ValidationError" ELSE "none"

\* StatisticalAnalyzer.perform_comprehensive_analysis: the error it raises,
\* "none" when it returns its report
PerformComprehensiveAnalysisError(data) ==
    IF Len(data) < MinAnalysisPoints THEN "ValidationError" ELSE "none"

(***************************************************************************)
(* Statistical Engine (src/src/statistical_analyzer.py).  A float that is  *)
(* nan is the number with denominator 0.  A value that scipy computes and   *)
(* that no branch of the program reads is held as the name of the          *)
(* function that computes it.                                              *)
(***************************************************************************)
NaN == <<0, 0>>

One == Rat(1, 1)

\* numpy.isfinite
IsFinite(x) == x[2] # 0

\* a < b on floats: false when one of them is nan
RatLess(a, b) == IsFinite(a) /\ IsFinite(b) /\ a[1] * b[2] < b[1] * a[2]

RatDiv(a, b) == Rat(a[1] * b[2], a[2] * b[1])

\* [i for i, p in enumerate(data) if test(p)], the indices from 1
IndicesWhere(data, test(_)) ==
    SelectSeq([i \in 1..Len(data) |-> i], LAMBDA i : test(data[i]))

\* the field values as floats
FloatOf(n) == Rat(n, 1)

\* sum of (x[i] - mean(x)) * (y[i] - mean(y))
CoMoment(x, y) ==
    LET n == Len(x)
        mx == RatMul(RatSum(x), Rat(1, n))
        my == RatMul(RatSum(y), Rat(1, n))
    IN  RatSum([i \in 1..n |-> RatMul(RatSub(x[i], mx), RatSub(y[i], my))])

\* scipy.stats.pearsonr(x, y)[0], held as its sign and its square; nan for
\* a constant input
PearsonR(x, y) ==
    LET sxy == CoMoment(x, y)
        sxx == CoMoment(x, x)
        syy == CoMoment(y, y)
    IN  IF sxx = Zero \/ syy = Zero THEN [sign |-> 0, sq |-> NaN]
        ELSE [sign |-> IF sxy[1] > 0 THEN 1 ELSE IF sxy[1] < 0 THEN -1 ELSE 0,
              sq |-> RatMul(RatDiv(sxy, sxx), RatDiv(sxy, syy))]

\* the float 0.0 as a correlation
ZeroR == [sign |-> 0, sq |-> Zero]

\* CorrelationAnalyzer._correlation_confidence_interval(r, n).  With numpy
\* floats r = 1 gives z = inf and both bounds nan, r = -1 gives z = -inf and
\* both bounds -1, a nan r gives nan bounds; every other r gives the bounds
\* tanh(atanh(r) -/+ z_critical / sqrt(n - 3)), held by name.
CorrelationConfidenceInterval(r, n) ==
    IF n < 4 THEN <<Zero, Zero>>
    ELSE IF ~IsFinite(r.sq) THEN <<NaN, NaN>>
    ELSE IF r.sq = One /\ r.sign = 1 THEN <<NaN, NaN>>
    ELSE IF r.sq = One /\ r.sign = -1 THEN <<Rat(-1, 1), Rat(-1, 1)>>
    ELSE <<<<"r_lower", r, n>>, <<"r_upper", r, n>>>>

\* mutant of InterpretCorrelation: the thresholds belong to the weaker class
InterpretCorrelationInclusive(r, p_value) ==
    LET above(num, den) == RatLess(Rat(num * num, den * den), r.sq)
        strength == IF ~above(1, 10) THEN "negligible"
                    ELSE IF ~above(3, 10) THEN "weak"
                    ELSE IF ~above(5, 10) THEN "moderate"
                    ELSE IF ~above(7, 10) THEN "strong"
                    ELSE "very strong"
        direction == IF r.sign > 0 /\ IsFinite(r.sq) THEN "positive" ELSE "negative"
        significance == IF Len(p_value) = 1 THEN p_value[1]
                        ELSE IF RatLess(p_value, Rat(5, 100)) THEN "significant"
                        ELSE "not significant"
    IN  <<strength, direction, significance>>

\* CorrelationAnalyzer._interpret_correlation: the three words of the text
\* f"{strength} {direction} correlation ({significance})".  A p-value held
\* by the name of the scipy function that gives it leaves that name for the
\* significance.
InterpretCorrelation(r, p_value) ==
    LET below(num, den) == RatLess(r.sq, Rat(num * num, den * den))
        strength == IF below(1, 10) THEN "negligible"
                    ELSE IF below(3, 10) THEN "weak"
                    ELSE IF below(5, 10) THEN "moderate"
                    ELSE IF below(7, 10) THEN "strong"
                    ELSE "very strong"
        direction == IF r.sign > 0 /\ IsFinite(r.sq) THEN "positive" ELSE "negative"
        significance == IF Len(p_value) = 1 THEN p_value[1]
                        ELSE IF RatLess(p_value, Rat(5, 100)) THEN "significant"
                        ELSE "not significant"
    IN  <<strength, direction, significance>>

\* a floor of 2 valid pairs
InsufficientPairsBelowTwo(n) == n < 2

\* the test of _calculate_correlation for too few valid pairs
InsufficientPairs(n) == n < 3

\* CorrelationAnalyzer._calculate_correlation(x, y, description)
CalculateCorrelation(x, y) ==
    LET mask == IndicesWhere([i \in 1..Len(x) |-> <<x[i], y[i]>>],
                             LAMBDA xy : IsFinite(xy[1]) /\ IsFinite(xy[2]))
        x_clean == [k \in 1..Len(mask) |-> x[mask[k]]]
        y_clean == [k \in 1..Len(mask) |-> y[mask[k]]]
    IN  IF InsufficientPairs(Len(x_clean))
        THEN [pearson_correlation |-> ZeroR,
              pearson_p_value |-> One,
              spearman_correlation |-> ZeroR,
              spearman_p_value |-> One,
              sample_size |-> Len(x_clean),
              confidence_interval_95 |-> <<Zero, Zero>>,
              interpretation |-> <<"Insufficient data">>]
        ELSE LET pearson_r == PearsonR(x_clean, y_clean)
             IN  [pearson_correlation |-> pearson_r,
                  pearson_p_value |-> <<"pearsonr">>,
                  spearman_correlation |-> <<"spearmanr">>,
                  spearman_p_value |-> <<"spearmanr">>,
                  sample_size |-> Len(x_clean),
                  confidence_interval_95 |->
                      CorrelationConfidenceInterval(pearson_r, Len(x_clean)),
                  interpretation |-> InterpretCorrelation(pearson_r, <<"pearsonr">>)]

\* the floor of analyze_correlations: more than this many defined values
MinCorrelationValues == 10

\* a dict of one key when cond holds, the empty dict otherwise
DictIf(cond, key, value) ==
    [k \in (IF cond THEN {key} ELSE {}) |-> value]

\* CorrelationAnalyzer.analyze_correlations(data)
AnalyzeCorrelations(data) ==
    LET illuminations == [i \in 1..Len(data) |-> FloatOf(data[i].illumination)]
        days_from_full == [i \in 1..Len(data) |-> FloatOf(data[i].days_from_full_moon)]
        at(values, idx) == [k \in 1..Len(idx) |-> values[idx[k]]]
        returns_indices == IndicesWhere(data, LAMBDA p : p.daily_return # None)
        returns == [k \in 1..Len(returns_indices) |-> data[returns_indices[k]].daily_return]
        vol_indices == IndicesWhere(data, LAMBDA p : p.volatility_7d # None)
        volatilities == [k \in 1..Len(vol_indices) |-> data[vol_indices[k]].volatility_7d]
        abs_returns_indices == IndicesWhere(data, LAMBDA p : p.abs_return # None)
        abs_returns == [k \in 1..Len(abs_returns_indices) |->
                            data[abs_returns_indices[k]].abs_return]
        has_returns == Len(returns) > MinCorrelationValues
        has_vol == Len(volatilities) > MinCorrelationValues
        has_abs == Len(abs_returns) > MinCorrelationValues
    IN  DictIf(has_returns, "returns_vs_illumination",
               CalculateCorrelation(returns, at(illuminations, returns_indices)))
        @@ DictIf(has_returns, "returns_vs_days_from_full",
               CalculateCorrelation(returns, at(days_from_full, returns_indices)))
        @@ DictIf(has_vol, "volatility_vs_illumination",
               CalculateCorrelation(volatilities, at(illuminations, vol_indices)))
        @@ DictIf(has_vol, "volatility_vs_days_from_full",
               CalculateCorrelation(volatilities, at(days_from_full, vol_indices)))
        @@ DictIf(has_abs, "abs_returns_vs_illumination",
               CalculateCorrelation(abs_returns, at(illuminations, abs_returns_indices)))

\* for phase in MoonPhase
MoonPhases == 0..7

\* numpy.mean(xs) if xs else 0
MeanOrZero(xs) ==
    IF xs = <<>> THEN Zero
    ELSE IF \E i \in 1..Len(xs) : ~IsFinite(xs[i]) THEN NaN
    ELSE RatMul(RatSum(xs), Rat(1, Len(xs)))

\* [p for p in data if p.phase_code == phase]
PointsOfPhase(data, phase) == SelectSeq(data, LAMBDA p : p.phase_code = phase)

\* [p.field for p in points if p.field is not None], for the three fields
ReturnsOf(points) ==
    LET idx == IndicesWhere(points, LAMBDA p : p.daily_return # None)
    IN  [k \in 1..Len(idx) |-> points[idx[k]].daily_return]

AbsReturnsOf(points) ==
    LET idx == IndicesWhere(points, LAMBDA p : p.abs_return # None)
    IN  [k \in 1..Len(idx) |-> points[idx[k]].abs_return]

VolatilitiesOf(points) ==
    LET idx == IndicesWhere(points, LAMBDA p : p.volatility_7d # None)
    IN  [k \in 1..Len(idx) |-> points[idx[k]].volatility_7d]

\* the PhaseMetric of one phase that has records
PhaseMetricOf(data, phase) ==
    LET points == PointsOfPhase(data, phase)
        returns == ReturnsOf(points)
        green_days == Len(SelectSeq(returns, LAMBDA r : RatLess(Zero, r)))
    IN  [phase |-> phase,
         avg_volatility |-> MeanOrZero(VolatilitiesOf(points)),
         green_day_percentage |->
             IF returns = <<>> THEN Zero ELSE Rat(green_days * 100, Len(returns)),
         mean_return |-> MeanOrZero(returns),
         sample_count |-> Len(points)]

\* mutant of PhaseMetrics: a phase without records is not skipped
PhaseMetricsOfEveryPhase(data) ==
    [k \in 1..8 |-> PhaseMetricOf(data, k - 1)]

\* phase_metrics of analyze_by_phases: the phases that have records, in the
\* order of the enum
PhaseMetrics(data) ==
    LET present == SelectSeq([i \in 1..8 |-> i - 1],
                             LAMBDA ph : PointsOfPhase(data, ph) # <<>>)
    IN  [k \in 1..Len(present) |-> PhaseMetricOf(data, present[k])]

\* the floor of _perform_phase_anova on the number of volatility values
MinAnovaValues == 10

\* the floor of a group of the ANOVA and of a pairwise test
MinGroupSize == 3

\* the phases whose group _perform_phase_anova keeps
AnovaPhases(data) ==
    {ph \in MoonPhases : Len(VolatilitiesOf(PointsOfPhase(data, ph))) >= MinGroupSize}

\* whether _perform_phase_anova reaches stats.f_oneway
AnovaComputed(data) ==
    /\ Len(VolatilitiesOf(data)) >= MinAnovaValues
    /\ Cardinality(AnovaPhases(data)) >= 2

\* mutant of PerformPhaseAnova: the groups are not counted
PerformPhaseAnovaAnyGroups(data, p_value) ==
    IF Len(VolatilitiesOf(data)) < MinAnovaValues THEN <<Zero, One>>
    ELSE <<<<"f_oneway">>, p_value>>

\* PhaseAnalyzer._perform_phase_anova: <<F, p>>, p_value being the p-value
\* stats.f_oneway gives
PerformPhaseAnova(data, p_value) ==
    IF Len(VolatilitiesOf(data)) < MinAnovaValues THEN <<Zero, One>>
    ELSE IF Cardinality(AnovaPhases(data)) < 2 THEN <<Zero, One>>
    ELSE <<<<"f_oneway">>, p_value>>

RECURSIVE FirstOccurrences(_, _)
\* the keys of phase_groups after the grouping loop: the phases in the
\* order of their first record
FirstOccurrences(data, seen) ==
    IF data = <<>> THEN <<>>
    ELSE IF Head(data).phase_code \in seen THEN FirstOccurrences(Tail(data), seen)
    ELSE <<Head(data).phase_code>>
            \o FirstOccurrences(Tail(data), seen \cup {Head(data).phase_code})

\* list(phase_groups.keys()) when _pairwise_phase_comparisons runs: reading
\* phase_groups[phase] for each phase of the enum has added the missing
\* phases to the defaultdict
PhaseGroupKeys(data) ==
    LET first == FirstOccurrences(data, {})
        had == {first[i] : i \in 1..Len(first)}
    IN  first \o SelectSeq([i \in 1..8 |-> i - 1], LAMBDA ph : ph \notin had)

\* significance level of the phase tests
Alpha == Rat(5, 100)

\* corrected_alpha = 0.05 / (len(phases) * (len(phases) - 1) / 2)
CorrectedAlpha(phases) ==
    RatDiv(Alpha, Rat(Len(phases) * (Len(phases) - 1), 2))

\* the pairs of positions i < j of phases, in the order of the two loops
PairsInOrder(n) ==
    LET all == [k \in 1..(n * n) |-> <<((k - 1) \div n) + 1, ((k - 1) % n) + 1>>]
    IN  SelectSeq(all, LAMBDA ij : ij[1] < ij[2])

\* PhaseAnalyzer._pairwise_phase_comparisons: pair_p[{phase1, phase2}] is
\* the p-value ttest_ind gives for the pair
PairwisePhaseComparisons(data, pair_p) ==
    LET phases == PhaseGroupKeys(data)
        pairs == PairsInOrder(Len(phases))
        tested(ij) ==
            /\ Len(VolatilitiesOf(PointsOfPhase(data, phases[ij[1]]))) >= MinGroupSize
            /\ Len(VolatilitiesOf(PointsOfPhase(data, phases[ij[2]]))) >= MinGroupSize
        hits == SelectSeq(pairs, LAMBDA ij :
                    tested(ij) /\ RatLess(pair_p[{phases[ij[1]], phases[ij[2]]}],
                                          CorrectedAlpha(phases)))
    IN  [k \in 1..Len(hits) |->
            <<phases[hits[k][1]], phases[hits[k][2]],
              pair_p[{phases[hits[k][1]], phases[hits[k][2]]}]>>]

\* mutant of AnalyzeByPhases: the pairwise tests run whatever the ANOVA says
AnalyzeByPhasesAlwaysPairwise(data, anova_p, pair_p) ==
    LET anova == PerformPhaseAnova(data, anova_p)
    IN  [phase_metrics |-> PhaseMetrics(data),
         anova_f_statistic |-> anova[1],
         anova_p_value |-> anova[2],
         significant_differences |-> PairwisePhaseComparisons(data, pair_p)]

\* PhaseAnalyzer.analyze_by_phases(data)
AnalyzeByPhases(data, anova_p, pair_p) ==
    LET anova == PerformPhaseAnova(data, anova_p)
    IN  [phase_metrics |-> PhaseMetrics(data),
         anova_f_statistic |-> anova[1],
         anova_p_value |-> anova[2],
         significant_differences |->
             IF RatLess(anova[2], Alpha)
             THEN PairwisePhaseComparisons(data, pair_p) ELSE <<>>]

\* mutant of CompareGroups: one group of 3 values is enough
CompareGroupsEither(group1, group2, metric_name) ==
    IF Len(group1) < MinGroupSize /\ Len(group2) < MinGroupSize
    THEN [error |-> <<"Insufficient data for comparison", metric_name>>]
    ELSE [group1_stats |-> [mean |-> MeanOrZero(group1), n |-> Len(group1)],
          group2_stats |-> [mean |-> MeanOrZero(group2), n |-> Len(group2)],
          t_test |-> <<"ttest_ind">>,
          mann_whitney |-> <<"mannwhitneyu">>,
          effect_size |-> <<"cohens_d">>]

\* StatisticalAnalyzer._compare_groups(group1, group2, metric_name)
CompareGroups(group1, group2, metric_name) ==
    IF Len(group1) < MinGroupSize \/ Len(group2) < MinGroupSize
    THEN [error |-> <<"Insufficient data for comparison", metric_name>>]
    ELSE [group1_stats |-> [mean |-> MeanOrZero(group1), n |-> Len(group1)],
          group2_stats |-> [mean |-> MeanOrZero(group2), n |-> Len(group2)],
          t_test |-> <<"ttest_ind">>,
          mann_whitney |-> <<"mannwhitneyu">>,
          effect_size |-> <<"cohens_d">>]

\* StatisticalAnalyzer.analyze_full_moon_effects(data)
AnalyzeFullMoonEffects(data) ==
    LET full_moon_data == SelectSeq(data, LAMBDA p : p.is_full_moon_window)
        baseline_data == SelectSeq(data, LAMBDA p : ~p.is_full_moon_window)
    IN  IF Len(full_moon_data) < MinGroupSize \/ Len(baseline_data) < MinGroupSize
        THEN [error |-> <<"Insufficient data for full moon analysis">>]
        ELSE [full_moon_periods |-> Len(full_moon_data),
              baseline_periods |-> Len(baseline_data),
              return_comparison |->
                  CompareGroups(AbsReturnsOf(full_moon_data),
                                AbsReturnsOf(baseline_data), "Returns"),
              volatility_comparison |->
                  CompareGroups(VolatilitiesOf(full_moon_data),
                                VolatilitiesOf(baseline_data), "Volatility")]

\* the floors of analyze_volatility_patterns and of its clustering and
\* regime sub-analyses
MinVolatilityValues == 10

MinClusteringValues == 20

\* VolatilityAnalyzer.analyze_volatility_patterns(data): which of its parts
\* are computed
AnalyzeVolatilityPatterns(data) ==
    LET volatilities == VolatilitiesOf(data)
        sub(name) == IF Len(volatilities) < MinClusteringValues
                     THEN [error |-> <<"Insufficient data", name>>]
                     ELSE [computed |-> name]
    IN  IF Len(volatilities) < MinVolatilityValues
        THEN [error |-> <<"Insufficient volatility data for analysis">>]
        ELSE [clustering |-> sub("clustering analysis"),
              illumination_relationship |-> [computed |-> "pearsonr"],
              regimes |-> sub("regime detection"),
              summary_stats |-> [mean_volatility |-> MeanOrZero(volatilities)]]

\* StatisticalAnalyzer._calculate_summary_stats(values): size and mean
CalculateSummaryStats(values) ==
    [sample_size |-> Len(values), mean |-> MeanOrZero(values)]

\* StatisticalAnalyzer.generate_statistical_summaries(data)
GenerateStatisticalSummaries(data) ==
    DictIf(ReturnsOf(data) # <<>>, "daily_returns", CalculateSummaryStats(ReturnsOf(data)))
    @@ DictIf(VolatilitiesOf(data) # <<>>, "volatility",
              CalculateSummaryStats(VolatilitiesOf(data)))
    @@ DictIf(TRUE, "moon_illumination",
              CalculateSummaryStats([i \in 1..Len(data) |-> FloatOf(data[i].illumination)]))

\* the report when nothing was analysed
NoResults == <<>>

\* StatisticalAnalyzer.perform_comprehensive_analysis(data): the report it
\* returns, NoResults when it raises
PerformComprehensiveAnalysis(data, anova_p, pair_p) ==
    IF PerformComprehensiveAnalysisError(data) # "none" THEN NoResults
    ELSE [correlations |-> AnalyzeCorrelations(data),
          phase_analysis |-> AnalyzeByPhases(data, anova_p, pair_p),
          volatility_analysis |-> AnalyzeVolatilityPatterns(data),
          full_moon_analysis |-> AnalyzeFullMoonEffects(data),
          summaries |-> GenerateStatisticalSummaries(data)]

(***************************************************************************)
(* The inputs of the aligner's runs.  A window is <<first day, stride>>:    *)
(* its days are first + stride * k for the offsets k of 0..MaxDay.  A list  *)
(* holds naive midnight timestamps on a set of these days and at most one   *)
(* timezone-aware timestamp, in ascending or in descending order.           *)
(***************************************************************************)
Windows ==
    {<<Ymd(2024, 11, 24), 1>>,   \* Sunday .. Thanksgiving 2024
     <<Ymd(2025, 12, 29), 1>>,   \* Monday .. Friday around New Year's Day 2026
     <<Ymd(2024, 1, 8), 3>>,     \* Mon, Thu, Sun, Wed, Sat
     <<Ymd(2024, 1, 8), 4>>}     \* Mon, Fri, Tue, Sat, Wed

Offsets == 0..MaxDay

WindowDay(w, k) == w[1] + w[2] * k

\* the timestamps of the model, all at midnight: without zone, in UTC, or in
\* a zone at UTC+1 (23:00 UTC of the day before)
Stamp(day, kind) == [day |-> day, hour |-> 0, tz |-> kind]

\* the zone of the one aware record of a window's list: the one that shifts
\* the date
AwareKinds == {"cet"}

KindTag(kind) == IF kind = "naive" THEN 0 ELSE IF kind = "utc" THEN 1 ELSE 2

\* a StockData the fetcher delivers: prices that tell the records apart
StockRecord(w, k, kind) ==
    LET c == 10 + 20 * KindTag(kind) + k
    IN  [date |-> Stamp(WindowDay(w, k), kind),
         open |-> c, high |-> c + 1, low |-> c - 1, close |-> c, volume |-> 1000 + k,
         daily_return |-> None, abs_return |-> None, volatility_7d |-> None]

\* a MoonData of the window's day k
MoonRecord(w, k, kind) ==
    [date |-> Stamp(WindowDay(w, k), kind),
     phase_code |-> k % 8,
     illumination |-> 10 * k,
     days_from_full_moon |-> k - 2,
     is_full_moon_window |-> (AbsInt(k - 2) <= 2)]

\* at most n of the window's days
DaySets(n) == {S \in SUBSET Offsets : Cardinality(S) <= n}

\* no aware record (<<>>) or one: <<k, kind>>
AwareChoices == {<<>>} \cup {<<k, kind>> : k \in Offsets, kind \in AwareKinds}

StockList(w, S, aware, order) ==
    LET ks == SetToSortedSeq(S)
        naive == [i \in 1..Len(ks) |-> StockRecord(w, ks[i], "naive")]
        extra == IF aware = <<>> THEN <<>> ELSE <<StockRecord(w, aware[1], aware[2])>>
    IN  IF order = "asc" THEN naive \o extra ELSE extra \o Reverse(naive)

MoonList(w, S, order) ==
    LET ks == SetToSortedSeq(S)
        naive == [i \in 1..Len(ks) |-> MoonRecord(w, ks[i], "naive")]
    IN  IF order = "asc" THEN naive ELSE Reverse(naive)

\* Scenario A of the specification: January 2-12, 2024, 7 weekday primary
\* dates without zone against 11 calendar secondary dates in UTC
ScenarioAStock ==
    LET w == <<Ymd(2024, 1, 2), 1>>
        ks == <<0, 1, 2, 3, 6, 7, 8>>
    IN  [i \in 1..Len(ks) |-> StockRecord(w, ks[i], "naive")]

ScenarioAMoon ==
    LET w == <<Ymd(2024, 1, 2), 1>>
    IN  [i \in 1..11 |-> MoonRecord(w, i - 1, "utc")]

AlignInputs ==
    {<<StockList(w, S, aware, order), MoonList(w, M, order)>> :
        w \in Windows, S \in DaySets(MaxStock), aware \in AwareChoices,
        M \in DaySets(MaxMoon), order \in {"asc", "desc"}}
    \cup {<<ScenarioAStock, ScenarioAMoon>>}

(***************************************************************************)
(* The inputs of the Metrics Engine's runs: lists of combined records, in  *)
(* any order of their dates, two records of one date included.             *)
(***************************************************************************)
MetricDays == {Ymd(2024, 1, 8), Ymd(2024, 1, 9)}

Closes == {0, 1, 2}

\* a CombinedDataPoint of day and close; stale tells whether the derived
\* fields already hold values (of an earlier calculation) or None
CombinedRecord(day, close, stale) ==
    [date |-> Stamp(day, "utc"),
     open |-> close, high |-> close + 1, low |-> close, close |-> close,
     volume |-> 1000 + close,
     daily_return |-> IF stale THEN Rat(7, 1) ELSE None,
     abs_return |-> IF stale THEN Rat(7, 1) ELSE None,
     volatility_7d |-> IF stale THEN Rat(7, 1) ELSE None,
     phase_code |-> (day + close) % 8,
     illumination |-> 45 * close,
     days_from_full_moon |-> close - 1,
     is_full_moon_window |-> TRUE,
     trading_day |-> TRUE,
     anomaly_score |-> None]

ShortShapes == UNION {[1..n -> MetricDays \X Closes] : n \in 0..MaxLen}

\* the lists of 10 and more records: a pair of closes repeated, on
\* consecutive days
LongShapes ==
    {[i \in 1..n |-> <<Ymd(2024, 1, 8) + i, IF i % 2 = 1 THEN c[1] ELSE c[2]>>] :
        n \in {MinAnalysisPoints, MinAnalysisPoints + 1}, c \in Closes \X Closes}

MetricsInputs ==
    {[i \in 1..Len(sh) |-> CombinedRecord(sh[i][1], sh[i][2], stale)] :
        sh \in ShortShapes \cup LongShapes, stale \in BOOLEAN}

(***************************************************************************)
(* Construction of the entities (src/src/data_models.py,                   *)
(* src/src/data_validation.py) and the phase calculator                    *)
(* (src/src/mcp_tools.py).  An exception is held as its class and message. *)
(***************************************************************************)
NoError == [class |-> "none", message |-> ""]

\* no request for a MoonData
NoRequest == [path |-> "none"]

PriceFields == <<"open", "high", "low", "close">>

\* mutant of StockDataError: prices out of order are rejected as well
StockDataErrorOrdered(d) ==
    IF \E i \in 1..4 : d[PriceFields[i]] < 0
    THEN [class |-> "ValueError", message |-> "Stock prices cannot be negative"]
    ELSE IF d.volume < 0
    THEN [class |-> "ValueError", message |-> "Volume cannot be negative"]
    ELSE IF ~(d.low <= d.open /\ d.low <= d.close /\ d.open <= d.high /\ d.close <= d.high)
    THEN [class |-> "ValueError", message |-> "Invalid OHLC relationships"]
    ELSE NoError

\* StockData.__post_init__: _validate_positive_values
StockDataError(d) ==
    IF \E i \in 1..4 : d[PriceFields[i]] < 0
    THEN [class |-> "ValueError", message |-> "Stock prices cannot be negative"]
    ELSE IF d.volume < 0
    THEN [class |-> "ValueError", message |-> "Volume cannot be negative"]
    ELSE NoError

\* StockDataValidator.validate_price_data(data): the error it raises
ValidatePriceDataError(d) ==
    IF \E i \in 1..4 : d[PriceFields[i]] < 0
    THEN [class |-> "ValidationError", message |-> "Price field cannot be negative"]
    ELSE IF d.volume < 0
    THEN [class |-> "ValidationError", message |-> "Volume cannot be negative"]
    ELSE NoError

\* the StockData built from the fields of d
StockDataOf(d) ==
    [date |-> d.date, open |-> d.open, high |-> d.high, low |-> d.low,
     close |-> d.close, volume |-> d.volume,
     daily_return |-> None, abs_return |-> None, volatility_7d |-> None]

\* DataFactory.create_stock_data_from_dict(data): the error it raises
CreateStockDataFromDictError(d) ==
    IF ValidatePriceDataError(d) # NoError THEN ValidatePriceDataError(d)
    ELSE StockDataError(d)

\* MoonData.__post_init__: _validate_illumination, _validate_phase_consistency;
\* is_enum tells whether phase_code is a member of MoonPhase
MoonDataError(m, is_enum) ==
    IF ~(0 <= m.illumination /\ m.illumination <= 100)
    THEN [class |-> "ValueError", message |-> "Illumination must be 0-100%"]
    ELSE IF ~is_enum
    THEN [class |-> "ValueError", message |-> "Invalid phase code"]
    ELSE NoError

\* MoonDataValidator.validate_moon_phase_data(data): the error it raises
ValidateMoonPhaseDataError(d) ==
    IF ~(0 <= d.phase_code /\ d.phase_code <= 7)
    THEN [class |-> "ValidationError", message |-> "Phase code must be 0-7"]
    ELSE IF ~(0 <= d.illumination /\ d.illumination <= 100)
    THEN [class |-> "ValidationError", message |-> "Illumination must be 0-100%"]
    ELSE IF ~(-15 <= d.days_from_full_moon /\ d.days_from_full_moon <= 15)
    THEN [class |-> "ValidationError", message |-> "Days from full moon out of range"]
    ELSE NoError

\* DataFactory.create_moon_data_from_dict(data), for a dict the validator
\* accepts: the flag is the value of the key, False without the key
CreateMoonDataFromDict(d) ==
    [date |-> d.date,
     phase_code |-> d.phase_code,
     illumination |-> d.illumination,
     days_from_full_moon |-> d.days_from_full_moon,
     is_full_moon_window |->
         IF "is_full_moon_window" \in DOMAIN d THEN d.is_full_moon_window ELSE FALSE]

\* DataFactory.create_moon_data_from_dict(data): the error it raises
CreateMoonDataFromDictError(d) ==
    IF ValidateMoonPhaseDataError(d) # NoError THEN ValidateMoonPhaseDataError(d)
    ELSE MoonDataError(CreateMoonDataFromDict(d), TRUE)

\* known_new_moon = datetime(2024, 1, 11)
KnownNewMoon == Ymd(2024, 1, 11)

\* lunar_cycle = 29.53059, in 1/100000 of a day
LunarCycle == 2953059

\* MoonDataFetcher._calculate_moon_phase(date): the phase value as the
\* numerator over LunarCycle
CalculateMoonPhase(day) == ((day - KnownNewMoon) * 100000) % LunarCycle

\* MoonDataFetcher._convert_phase_value(phase_value)
ConvertPhaseValue(pv) ==
    IF 16 * pv < LunarCycle THEN 0
    ELSE IF 16 * pv < 3 * LunarCycle THEN 1
    ELSE IF 16 * pv < 5 * LunarCycle THEN 2
    ELSE IF 16 * pv < 7 * LunarCycle THEN 3
    ELSE IF 16 * pv < 9 * LunarCycle THEN 4
    ELSE IF 16 * pv < 11 * LunarCycle THEN 5
    ELSE IF 16 * pv < 13 * LunarCycle THEN 6
    ELSE 7

\* MoonDataFetcher._calculate_illumination(phase_value), in whole percent
CalculateIllumination(pv) ==
    IF 2 * pv <= LunarCycle THEN (200 * pv) \div LunarCycle
    ELSE (200 * (LunarCycle - pv)) \div LunarCycle

\* MoonDataFetcher._calculate_days_from_full_moon(phase_value):
\* int((0.5 - phase_value) * 29.5), -int((phase_value - 0.5) * 29.5)
CalculateDaysFromFullMoon(pv) ==
    IF 2 * pv <= LunarCycle THEN ((LunarCycle - 2 * pv) * 59) \div (4 * LunarCycle)
    ELSE -(((2 * pv - LunarCycle) * 59) \div (4 * LunarCycle))

\* the MoonData of one date in MoonDataFetcher.get_moon_phase
MoonDataOfDate(day) ==
    LET phase_value == CalculateMoonPhase(day)
        days_from_full == CalculateDaysFromFullMoon(phase_value)
    IN  [date |-> [day |-> day, hour |-> 0, tz |-> "naive"],
         phase_code |-> ConvertPhaseValue(phase_value),
         illumination |-> CalculateIllumination(phase_value),
         days_from_full_moon |-> days_from_full,
         is_full_moon_window |-> (AbsInt(days_from_full) <= 2)]

\* MoonDataFetcher.get_moon_phase(latitude, longitude, start_date, end_date);
\* the dicts of the module's get_moon_phase have the same five keys
GetMoonPhase(start_day, end_day) ==
    [i \in 1..(end_day - start_day + 1) |-> MoonDataOfDate(start_day + i - 1)]

\* the first error of a list of errors, NoError when there is none
FirstError(errors) ==
    IF \A i \in 1..Len(errors) : errors[i] = NoError THEN NoError
    ELSE errors[CHOOSE i \in 1..Len(errors) :
                    /\ errors[i] # NoError
                    /\ \A j \in 1..(i - 1) : errors[j] = NoError]

\* the error of building the objects of a run from its dicts: by calling
\* the classes ("direct") or the factory functions ("dict")
CreateDataObjectsError(stocks, moons, how) ==
    FirstError([i \in 1..Len(stocks) |->
                    IF how = "direct" THEN StockDataError(stocks[i])
                    ELSE CreateStockDataFromDictError(stocks[i])]
               \o [i \in 1..Len(moons) |->
                    IF how = "direct" THEN MoonDataError(moons[i], TRUE)
                    ELSE CreateMoonDataFromDictError(moons[i])])

\* raise ValidationError("No overlapping dates found between stock and moon data")
AlignmentErrorOf(error) ==
    IF error = "none" THEN NoError
    ELSE [class |-> error,
          message |-> "No overlapping dates found between stock and moon data"]

\* raise ValidationError("Insufficient data for statistical analysis (minimum
\* 10 points required)")
AnalysisErrorOf(error) ==
    IF error = "none" THEN NoError
    ELSE [class |-> error,
          message |-> "Insufficient data for statistical analysis (minimum 10 points required)"]

(***************************************************************************)
(* The p-values scipy gives the phase tests: one of a few levels around    *)
(* the thresholds they are compared with, or nan.                          *)
(***************************************************************************)
\* below 0.05 / 28, between 0.05 / 28 and 0.05 / 3, and above 0.05
PairLevels == {Rat(1, 1000), Rat(1, 100), Rat(1, 2)}

AnovaLevels == PairLevels \cup {NaN}

\* the p-value of stats.f_oneway, where it is called
AnovaOracles(data) ==
    IF PerformComprehensiveAnalysisError(data) = "none" /\ AnovaComputed(data)
    THEN AnovaLevels ELSE {One}

\* the p-values of ttest_ind for the pairs of phases with 3 and more
\* volatility values each; for two groups the F test of the ANOVA is the
\* t test of the pair
PairOracles(data, anova_p) ==
    LET pairs == {pr \in SUBSET AnovaPhases(data) : Cardinality(pr) = 2}
    IN  IF PerformComprehensiveAnalysisError(data) # "none" THEN {[pr \in pairs |-> One]}
        ELSE IF AnovaComputed(data) /\ Cardinality(pairs) = 1 THEN {[pr \in pairs |-> anova_p]}
        ELSE [pairs -> PairLevels]

(***************************************************************************)
(* The inputs of the Statistical Engine's runs: lists of 0, 9 and 10 and   *)
(* more records, built from a few profiles of their fields.                *)
(***************************************************************************)
\* most records above the floor of 10
MaxExtra == 2

StatsLens ==
    {0, MinAnalysisPoints - 1} \cup MinAnalysisPoints..(MinAnalysisPoints + MaxExtra)

\* how many leading records have no rolling volatility
UndefinedCounts == {0, 2, 7}

\* the returns: defined everywhere, None everywhere, or nan in all but the
\* last 2 or 3 records
ReturnModes == {"defined", "none", "nan2", "nan3"}

\* the phases of the records: one phase, two halves, three runs, all eight
\* in turn
PhasePatterns == {"one", "two", "three", "cycle"}

\* how many leading records are in the near-peak window
WindowCounts == {0, 2, 3}

\* the values of returns and volatility against the illumination
ValuePatterns == {"constant", "rising", "falling", "zigzag"}

StatsValue(values, illum, k) ==
    IF values = "constant" THEN 1
    ELSE IF values = "rising" THEN illum
    ELSE IF values = "falling" THEN 100 - illum
    ELSE (k % 3) * (IF k % 2 = 0 THEN 1 ELSE -1) + 3

\* record k of n of a profile
StatsRecord(k, n, und, returns, phases, window, values) ==
    LET illum == 5 * k
        v == StatsValue(values, illum, k)
        ret == IF returns = "none" THEN None
               ELSE IF returns = "nan2" /\ k <= n - 2 THEN NaN
               ELSE IF returns = "nan3" /\ k <= n - 3 THEN NaN
               ELSE Rat(v - 3, 1)
    IN  [date |-> Stamp(Ymd(2024, 1, 8) + k, "utc"),
         open |-> 10, high |-> 11, low |-> 9, close |-> 10, volume |-> 1000,
         daily_return |-> ret,
         abs_return |-> IF ret = None \/ ret = NaN THEN ret ELSE RatAbs(ret),
         volatility_7d |-> IF k <= und THEN None ELSE Rat(v, 1),
         phase_code |-> IF phases = "one" THEN 4
                        ELSE IF phases = "two" THEN (IF 2 * k <= n THEN 4 ELSE 0)
                        ELSE IF phases = "three" THEN (IF k <= 3 THEN 2 ELSE IF k <= 6 THEN 0 ELSE 4)
                        ELSE (k - 1) % 8,
         illumination |-> illum,
         days_from_full_moon |-> IF k <= window THEN (k % 5) - 2 ELSE 3 + (k % 5),
         is_full_moon_window |-> (k <= window),
         trading_day |-> TRUE,
         anomaly_score |-> None]

StatsInputs ==
    {[k \in 1..n |-> StatsRecord(k, n, und, returns, phases, window, values)] :
        n \in StatsLens, und \in UndefinedCounts, returns \in ReturnModes,
        phases \in PhasePatterns, window \in WindowCounts, values \in ValuePatterns}

(***************************************************************************)
(* The inputs of the pipeline's runs: the dicts of some consecutive days   *)
(* of prices and of some consecutive days of the phase calculator.         *)
(***************************************************************************)
\* Monday, January 8, 2024
PipelineBase == Ymd(2024, 1, 8)

\* the price dict of day k of a run; bad is the day whose close is negative
StockDict(soff, k, kind, bad) ==
    LET c == 10 + (k % 3)
    IN  [date |-> Stamp(PipelineBase + soff + k - 1, kind),
         open |-> c, high |-> c + 1, low |-> IF k = bad THEN -1 ELSE c - 1,
         close |-> IF k = bad THEN -1 ELSE c, volume |-> 1000 + k]

StockDicts(soff, slen, kind, bad) ==
    [k \in 1..slen |-> StockDict(soff, k, kind, bad)]

\* first day and number of days of the prices, zone of their timestamps,
\* day with a negative price (0: none); first day and number of days of the
\* moon data; how the objects are built
PipelineInputs ==
    {<<StockDicts(soff, slen, kind, bad),
       GetMoonPhase(PipelineBase + moff, PipelineBase + moff + mlen - 1), how>> :
        soff \in {0, 7}, slen \in {1, 5, 14}, kind \in {"naive", "cet"},
        bad \in {0, 1}, moff \in {0, 6, 30}, mlen \in {1, 14},
        how \in {"direct", "dict"}}

(***************************************************************************)
(* The requests for one MoonData: by the class, by the factory from a dict *)
(* with or without the key of the flag, or by the phase calculator.        *)
(***************************************************************************)
RequestPhases == {0, 4, 8}

RequestIlluminations == {-1, 0, 100, 101}

RequestOffsets == {-16, -3, -2, 0, 2, 3, 15}

\* the dates of the calculator's requests: two lunar cycles
CalculatorDays == Ymd(2024, 1, 1)..(Ymd(2024, 1, 1) + 59)

FieldRequests(path, flags) ==
    {[path |-> path, day |-> Ymd(2024, 1, 8), phase_code |-> ph, is_enum |-> en,
      illumination |-> il, days_from_full_moon |-> off, is_full_moon_window |-> fl] :
        ph \in RequestPhases, en \in (IF path = "direct" THEN BOOLEAN ELSE {FALSE}),
        il \in RequestIlluminations, off \in RequestOffsets, fl \in flags}

MoonRequests ==
    FieldRequests("direct", BOOLEAN)
        \cup FieldRequests("dict_with_flag", BOOLEAN)
        \cup FieldRequests("dict_without_flag", {FALSE})
        \cup {[path |-> "calculator", day |-> d] : d \in CalculatorDays}

\* the prices and volumes of the requests for a StockData
RequestPrices == {-1, 0, 10}

RequestVolumes == {-1, 0, 1000}

StockRequests ==
    {[path |-> "stock", day |-> Ymd(2024, 1, 8), open |-> o, high |-> h, low |-> l,
      close |-> c, volume |-> v] :
        o \in RequestPrices, h \in RequestPrices, l \in RequestPrices,
        c \in RequestPrices, v \in RequestVolumes}

\* the arguments of StockData(...) of a request
StockFieldsOfRequest(r) ==
    [date |-> Stamp(r.day, "naive"), open |-> r.open, high |-> r.high, low |-> r.low,
     close |-> r.close, volume |-> r.volume]

\* the dict of a request to the factory
DictOfRequest(r) ==
    LET fields == [date |-> Stamp(r.day, "naive"),
                   phase_code |-> r.phase_code,
                   illumination |-> r.illumination,
                   days_from_full_moon |-> r.days_from_full_moon]
    IN  IF r.path = "dict_with_flag"
        THEN fields @@ [is_full_moon_window |-> r.is_full_moon_window]
        ELSE fields

\* MoonData(date, phase_code, illumination, days_from_full_moon, flag)
MoonDataOfRequest(r) ==
    [date |-> Stamp(r.day, "naive"),
     phase_code |-> r.phase_code,
     illumination |-> r.illumination,
     days_from_full_moon |-> r.days_from_full_moon,
     is_full_moon_window |-> r.is_full_moon_window]

\* the error of a request and the MoonData it builds without error
RequestError(r) ==
    IF r.path = "direct"
    THEN MoonDataError(MoonDataOfRequest(r), r.is_enum /\ r.phase_code \in MoonPhases)
    ELSE IF r.path = "calculator" THEN NoError
    ELSE CreateMoonDataFromDictError(DictOfRequest(r))

RequestResult(r) ==
    IF r.path = "direct" THEN MoonDataOfRequest(r)
    ELSE IF r.path = "calculator" THEN MoonDataOfDate(r.day)
    ELSE CreateMoonDataFromDict(DictOfRequest(r))

(***************************************************************************)
(* create_aligned_dataset(stock_data, moon_data), one run, call by call.   *)
(***************************************************************************)
(***************************************************************************)
(* CacheManager (src/src/cache_manager.py).  memory_cache and the cache    *)
(* directory are functions from the keys they hold; a file is its content  *)
(* (<<>> while it is empty or cannot be unpickled, <<entry>> otherwise)    *)
(* and the thread that created it, which tells a file from a later file of *)
(* the same name.  The counters of cache_stats are left out.               *)
(***************************************************************************)
\* default_ttl: int = 3600
DefaultTtl == 3600

\* f without the key
Without(f, key) == [k \in (DOMAIN f) \ {key} |-> f[k]]

\* f with the key bound to x
With(f, key, x) == [k \in (DOMAIN f) \cup {key} |-> IF k = key THEN x ELSE f[k]]

NoCall == [op |-> "none", key |-> "", result |-> "", at |-> 0]

\* CacheManager._is_valid(entry), time.time() being time
IsValid(entry, time) == entry.expiry > time

\* CacheManager._get_from_disk(key): the entry returned (<<>> for None) and
\* the files it leaves
GetFromDisk(files, key, time) ==
    IF key \notin DOMAIN files THEN [entry |-> <<>>, files |-> files]
    ELSE IF files[key].content = <<>>
    THEN [entry |-> <<>>, files |-> Without(files, key)]
    ELSE IF IsValid(files[key].content[1], time)
    THEN [entry |-> files[key].content, files |-> files]
    ELSE [entry |-> <<>>, files |-> Without(files, key)]

\* CacheManager.get(key, default): what it returns and what it leaves
CacheGet(memory, files, key, default, time) ==
    IF key \in DOMAIN memory /\ IsValid(memory[key], time)
    THEN [result |-> memory[key].data, memory |-> memory, files |-> files]
    ELSE LET evicted == IF key \in DOMAIN memory THEN Without(memory, key) ELSE memory
             disk_value == GetFromDisk(files, key, time)
         IN  IF disk_value.entry # <<>>
             THEN [result |-> disk_value.entry[1].data,
                   memory |-> With(evicted, key, disk_value.entry[1]),
                   files |-> disk_value.files]
             ELSE [result |-> default, memory |-> evicted, files |-> disk_value.files]

\* the entry of CacheManager.set(key, value, ttl); ttl 0 stands for None and
\* for 0, which `ttl or self.default_ttl` treats alike
EntryOf(value, ttl, time) ==
    [data |-> value,
     expiry |-> time + (IF ttl = 0 THEN DefaultTtl ELSE ttl),
     created |-> time]

\* CacheManager.cleanup_expired(): the memory cache and the files it leaves
CleanupMemory(memory, time) ==
    [k \in {k \in DOMAIN memory : ~(memory[k].expiry < time)} |-> memory[k]]

CleanupFiles(files, time) ==
    [k \in {k \in DOMAIN files :
               files[k].content # <<>> /\ ~(files[k].content[1].expiry < time)}
        |-> files[k]]

\* get_stats(): memory_entries + disk_entries
CacheEntries(memory, files) == Cardinality(DOMAIN memory) + Cardinality(DOMAIN files)

AlignStart ==
    /\ target_timezone = DefaultTimezone
    /\ \E in \in AlignInputs :
          /\ stock_data = in[1]
          /\ moon_data = in[2]
    /\ trading_stock_data = <<>>
    /\ aligned_data = <<>>
    /\ corrected_data = <<>>
    /\ align_pc = "start"
    /\ align_error = "none"

AlignIdle ==
    /\ target_timezone = DefaultTimezone
    /\ stock_data = <<>>
    /\ moon_data = <<>>
    /\ trading_stock_data = <<>>
    /\ aligned_data = <<>>
    /\ corrected_data = <<>>
    /\ align_pc = "idle"
    /\ align_error = "none"

MetricsStart ==
    /\ combined_input \in MetricsInputs
    /\ rolling_window \in 1..MaxWindow
    /\ metrics_data = <<>>
    /\ metrics_again = <<>>
    /\ metrics_pc = "start"
    /\ analysis_error = "none"
    /\ analysis_results = NoResults
    /\ scipy_p = NoResults

MetricsIdle ==
    /\ combined_input = <<>>
    /\ rolling_window = 1
    /\ metrics_data = <<>>
    /\ metrics_again = <<>>
    /\ metrics_pc = "idle"
    /\ analysis_error = "none"
    /\ analysis_results = NoResults
    /\ scipy_p = NoResults

EntityIdle ==
    /\ stock_dicts = <<>>
    /\ moon_dicts = <<>>
    /\ construction = "none"
    /\ request = NoRequest
    /\ moon_entity = <<>>
    /\ stock_entity = <<>>
    /\ combined_entity = <<>>
    /\ entity_pc = "idle"
    /\ entity_error = NoError

\* no call of _interpret_correlation in progress
InterpretIdle ==
    /\ correlation_args = <<>>
    /\ interpretation = <<>>

\* no CacheManager in use
CacheIdle ==
    /\ memory_cache = <<>>
    /\ cache_files = <<>>
    /\ writers = {}
    /\ now = 0
    /\ calls = 0
    /\ last_call = NoCall
    /\ latest_set = <<>>

\* no analysis invocation in progress
ConcurrentIdle ==
    /\ call_args = <<>>
    /\ thread_pc = <<>>
    /\ frames = <<>>
    /\ returned = <<>>

AuxIdle == InterpretIdle /\ CacheIdle /\ ConcurrentIdle

InitAlign == AlignStart /\ MetricsIdle /\ EntityIdle /\ AuxIdle

InitMetrics == AlignIdle /\ MetricsStart /\ EntityIdle /\ AuxIdle

\* trading_stock_data = aligner.handle_market_closures(stock_data)
DoHandleMarketClosures ==
    /\ align_pc = "start"
    /\ trading_stock_data' = HandleMarketClosures(stock_data)
    /\ align_pc' = "closures_handled"
    /\ UNCHANGED <<target_timezone, stock_data, moon_data, aligned_data, corrected_data,
                   align_error>>
    /\ UNCHANGED metrics_vars
    /\ UNCHANGED entity_vars
    /\ UNCHANGED aux_vars

\* aligned_data = aligner.align_data_by_trading_dates(trading_stock_data, moon_data)
DoAlignDataByTradingDates ==
    /\ align_pc = "closures_handled"
    /\ LET r == AlignDataByTradingDates(trading_stock_data, moon_data)
       IN  /\ align_error' = r.error
           /\ aligned_data' = r.data
           /\ align_pc' = IF r.error = "none" THEN "aligned" ELSE "raised"
    /\ UNCHANGED <<target_timezone, stock_data, moon_data, trading_stock_data,
                   corrected_data>>
    /\ UNCHANGED metrics_vars
    /\ UNCHANGED entity_vars
    /\ UNCHANGED aux_vars

\* corrected_data = aligner.correct_timezone_misalignments(aligned_data); return
DoCorrectTimezoneMisalignments ==
    /\ align_pc = "aligned"
    /\ corrected_data' = CorrectTimezoneMisalignments(aligned_data)
    /\ align_pc' = "returned"
    /\ UNCHANGED <<target_timezone, stock_data, moon_data, trading_stock_data, aligned_data,
                   align_error>>
    /\ UNCHANGED metrics_vars
    /\ UNCHANGED entity_vars
    /\ UNCHANGED aux_vars

NextAlign ==
    \/ DoHandleMarketClosures
    \/ DoAlignDataByTradingDates
    \/ DoCorrectTimezoneMisalignments

SpecAlign == InitAlign /\ [][NextAlign]_vars

(***************************************************************************)
(* The Metrics Engine's run: calculate_all_metrics on the input, then      *)
(* either the statistical analysis of its result or a second calculation   *)
(* on its result.                                                          *)
(***************************************************************************)
\* metrics_data = calculator.calculate_all_metrics(combined_data, rolling_window)
DoCalculateAllMetrics ==
    /\ metrics_pc = "start"
    /\ metrics_data' = CalculateAllMetrics(combined_input, rolling_window)
    /\ combined_input' = CallerListAfterSorted(combined_input)
    /\ metrics_pc' = "calculated"
    /\ UNCHANGED <<rolling_window, metrics_again, analysis_error, analysis_results, scipy_p>>
    /\ UNCHANGED align_vars
    /\ UNCHANGED entity_vars
    /\ UNCHANGED aux_vars

\* calculator.calculate_all_metrics(metrics_data, rolling_window), once more
DoCalculateAgain ==
    /\ metrics_pc = "calculated"
    /\ metrics_again' = CalculateAllMetrics(metrics_data, rolling_window)
    /\ metrics_data' = CallerListAfterSorted(metrics_data)
    /\ metrics_pc' = "recalculated"
    /\ UNCHANGED <<combined_input, rolling_window, analysis_error, analysis_results, scipy_p>>
    /\ UNCHANGED align_vars
    /\ UNCHANGED entity_vars
    /\ UNCHANGED aux_vars

\* analyzer.perform_comprehensive_analysis(metrics_data).  Where metrics_data
\* is the Metrics Engine's output its volatilities are held as squares, and
\* the report's means and correlations of volatility are those of the
\* squares; which values are defined, and so every count and every floor,
\* is the same.
DoPerformComprehensiveAnalysis ==
    /\ metrics_pc = "calculated"
    /\ analysis_error' = PerformComprehensiveAnalysisError(metrics_data)
    /\ \E anova_p \in AnovaOracles(metrics_data) :
          \E pair_p \in PairOracles(metrics_data, anova_p) :
              /\ scipy_p' = [anova |-> anova_p, pairs |-> pair_p]
              /\ analysis_results' =
                    PerformComprehensiveAnalysis(metrics_data, anova_p, pair_p)
    /\ metrics_pc' = IF analysis_error' = "none" THEN "analysed" ELSE "analysis_raised"
    /\ UNCHANGED <<combined_input, rolling_window, metrics_data, metrics_again>>
    /\ UNCHANGED align_vars
    /\ UNCHANGED entity_vars
    /\ UNCHANGED aux_vars

NextMetrics ==
    \/ DoCalculateAllMetrics
    \/ DoCalculateAgain
    \/ DoPerformComprehensiveAnalysis

SpecMetrics == InitMetrics /\ [][NextMetrics]_vars

(***************************************************************************)
(* The Statistical Engine's run: perform_comprehensive_analysis on a list  *)
(* of records it is given.                                                 *)
(***************************************************************************)
StatsStart ==
    /\ combined_input = <<>>
    /\ rolling_window = 1
    /\ metrics_data \in StatsInputs
    /\ metrics_again = <<>>
    /\ metrics_pc = "calculated"
    /\ analysis_error = "none"
    /\ analysis_results = NoResults
    /\ scipy_p = NoResults

InitStats == AlignIdle /\ StatsStart /\ EntityIdle /\ AuxIdle

NextStats == DoPerformComprehensiveAnalysis

SpecStats == InitStats /\ [][NextStats]_vars

(***************************************************************************)
(* The construction of one MoonData and of a CombinedDataPoint from it.    *)
(***************************************************************************)
EntityStart ==
    /\ stock_dicts = <<>>
    /\ moon_dicts = <<>>
    /\ construction = "none"
    /\ request \in MoonRequests \cup StockRequests
    /\ moon_entity = <<>>
    /\ stock_entity = <<>>
    /\ combined_entity = <<>>
    /\ entity_pc = "request"
    /\ entity_error = NoError

InitEntities == AlignIdle /\ MetricsIdle /\ EntityStart /\ AuxIdle

\* MoonData(...), DataFactory.create_moon_data_from_dict(data) or one date
\* of MoonDataFetcher.get_moon_phase
DoConstructMoonData ==
    /\ entity_pc = "request"
    /\ request.path # "stock"
    /\ entity_error' = RequestError(request)
    /\ moon_entity' = IF RequestError(request) = NoError
                      THEN <<RequestResult(request)>> ELSE <<>>
    /\ entity_pc' = IF RequestError(request) = NoError THEN "constructed" ELSE "raised"
    /\ UNCHANGED <<stock_dicts, moon_dicts, construction, request, stock_entity,
                   combined_entity>>
    /\ UNCHANGED <<align_vars, metrics_vars>>
    /\ UNCHANGED aux_vars

\* DataFactory.create_combined_data_point(stock, moon_entity), with the
\* StockData of the same date
DoCreateCombinedDataPoint ==
    /\ entity_pc = "constructed"
    /\ combined_entity' =
          <<CreateCombinedDataPoint(
                StockDataOf(StockDict(moon_entity[1].date.day - PipelineBase, 1, "naive", 0)),
                moon_entity[1])>>
    /\ entity_pc' = "combined"
    /\ UNCHANGED <<stock_dicts, moon_dicts, construction, request, moon_entity,
                   stock_entity, entity_error>>
    /\ UNCHANGED <<align_vars, metrics_vars>>
    /\ UNCHANGED aux_vars

\* StockData(date, open, high, low, close, volume)
DoConstructStockData ==
    /\ entity_pc = "request"
    /\ request.path = "stock"
    /\ entity_error' = StockDataError(StockFieldsOfRequest(request))
    /\ stock_entity' = IF StockDataError(StockFieldsOfRequest(request)) = NoError
                       THEN <<StockDataOf(StockFieldsOfRequest(request))>> ELSE <<>>
    /\ entity_pc' = IF StockDataError(StockFieldsOfRequest(request)) = NoError
                    THEN "constructed_stock" ELSE "raised"
    /\ UNCHANGED <<stock_dicts, moon_dicts, construction, request, moon_entity,
                   combined_entity>>
    /\ UNCHANGED <<align_vars, metrics_vars>>
    /\ UNCHANGED aux_vars

NextEntities == DoConstructMoonData \/ DoConstructStockData \/ DoCreateCombinedDataPoint

SpecEntities == InitEntities /\ [][NextEntities]_vars

(***************************************************************************)
(* The pipeline's run: the objects are built from the dicts, aligned, the  *)
(* metrics calculated and the result analysed.                             *)
(***************************************************************************)
PipelineStart ==
    /\ \E in \in PipelineInputs :
          /\ stock_dicts = in[1]
          /\ moon_dicts = in[2]
          /\ construction = in[3]
    /\ request = NoRequest
    /\ moon_entity = <<>>
    /\ stock_entity = <<>>
    /\ combined_entity = <<>>
    /\ entity_pc = "dicts"
    /\ entity_error = NoError

InitPipeline == AlignIdle /\ MetricsIdle /\ PipelineStart /\ AuxIdle

\* stock_objects = [...], moon_objects = [...]
DoCreateDataObjects ==
    /\ entity_pc = "dicts"
    /\ LET error == CreateDataObjectsError(stock_dicts, moon_dicts, construction)
       IN  /\ entity_error' = error
           /\ entity_pc' = IF error = NoError THEN "created" ELSE "raised"
           /\ stock_data' = IF error = NoError
                            THEN [i \in 1..Len(stock_dicts) |-> StockDataOf(stock_dicts[i])]
                            ELSE stock_data
           /\ moon_data' = IF error = NoError
                           THEN [i \in 1..Len(moon_dicts) |->
                                    CreateMoonDataFromDict(moon_dicts[i])]
                           ELSE moon_data
           /\ align_pc' = IF error = NoError THEN "start" ELSE align_pc
    /\ UNCHANGED <<target_timezone, trading_stock_data, aligned_data, corrected_data,
                   align_error>>
    /\ UNCHANGED <<stock_dicts, moon_dicts, construction, request, moon_entity,
                   stock_entity, combined_entity>>
    /\ UNCHANGED metrics_vars
    /\ UNCHANGED aux_vars

\* calculator.calculate_all_metrics(aligned_data, rolling_window): the
\* aligner's result is the argument
DoPassAlignedData ==
    /\ entity_pc = "created"
    /\ align_pc = "returned"
    /\ metrics_pc = "idle"
    /\ combined_input' = corrected_data
    /\ rolling_window' = 2
    /\ metrics_pc' = "start"
    /\ UNCHANGED <<metrics_data, metrics_again, analysis_error, analysis_results, scipy_p>>
    /\ UNCHANGED <<align_vars, entity_vars>>
    /\ UNCHANGED aux_vars

\* the exception fetch_and_analyze_data catches, the first that was raised
CallerError ==
    IF entity_error # NoError THEN entity_error
    ELSE IF align_error # "none" THEN AlignmentErrorOf(align_error)
    ELSE AnalysisErrorOf(analysis_error)

NextPipeline ==
    \/ DoCreateDataObjects
    \/ DoHandleMarketClosures
    \/ DoAlignDataByTradingDates
    \/ DoCorrectTimezoneMisalignments
    \/ DoPassAlignedData
    \/ DoCalculateAllMetrics
    \/ DoPerformComprehensiveAnalysis

SpecPipeline == InitPipeline /\ [][NextPipeline]_vars

\* the runs of both stages
Init == InitAlign \/ InitMetrics

Next == NextAlign \/ NextMetrics

Spec == Init /\ [][Next]_vars

(***************************************************************************)
(* create_aligned_dataset(stock_data, moon_data, target_timezone), for the *)
(* default zone and for another one.                                       *)
(***************************************************************************)
TargetZones == {"utc", "cet"}

ZoneInputs ==
    {<<StockList(w, S, aware, "asc"), MoonList(w, M, "asc")>> :
        w \in Windows, S \in DaySets(2), aware \in AwareChoices, M \in DaySets(1)}

InitZones ==
    /\ target_timezone \in TargetZones
    /\ \E in \in ZoneInputs :
          /\ stock_data = in[1]
          /\ moon_data = in[2]
    /\ trading_stock_data = <<>>
    /\ aligned_data = <<>>
    /\ corrected_data = <<>>
    /\ align_pc = "start"
    /\ align_error = "none"
    /\ MetricsIdle /\ EntityIdle /\ AuxIdle

SpecZones == InitZones /\ [][NextAlign]_vars

(***************************************************************************)
(* One CacheManager, called by one thread, and the threads that            *)
(* _set_to_disk_async starts.  A call holds self._lock from its first      *)
(* statement to its last; write_to_disk does not take the lock, so its two *)
(* steps, the open that creates or truncates the file and the dump that    *)
(* fills it, fall between the calls in any order.                          *)
(***************************************************************************)
MaxCalls == 3

MaxTime == 2

CacheKeys == {"k1", "k2"}

CacheValues == {"v1", "v2"}

CacheTtls == {0, 1}

CacheDefault == "default"

CacheStart ==
    /\ memory_cache = <<>>
    /\ cache_files = <<>>
    /\ writers = {}
    /\ now = 0
    /\ calls = 0
    /\ last_call = NoCall
    /\ latest_set = [k \in CacheKeys |-> <<>>]

InitCache ==
    /\ AlignIdle /\ MetricsIdle /\ EntityIdle /\ InterpretIdle /\ ConcurrentIdle
    /\ CacheStart

\* cache.set(key, value, ttl)
DoSet ==
    /\ calls < MaxCalls
    /\ \E key \in CacheKeys : \E value \in CacheValues : \E ttl \in CacheTtls :
          LET entry == EntryOf(value, ttl, now)
          IN  /\ memory_cache' = With(memory_cache, key, entry)
              /\ writers' = writers \cup
                    {[id |-> calls + 1, key |-> key, entry |-> entry, file |-> 0]}
              /\ latest_set' = [latest_set EXCEPT ![key] = <<entry>>]
              /\ last_call' = [op |-> "set", key |-> key, result |-> "None", at |-> now]
    /\ calls' = calls + 1
    /\ UNCHANGED <<cache_files, now>>
    /\ UNCHANGED <<align_vars, metrics_vars, entity_vars, interpret_vars, concurrent_vars>>

\* cache.get(key, default)
DoGet ==
    /\ calls < MaxCalls
    /\ \E key \in CacheKeys :
          LET r == CacheGet(memory_cache, cache_files, key, CacheDefault, now)
          IN  /\ memory_cache' = r.memory
              /\ cache_files' = r.files
              /\ last_call' = [op |-> "get", key |-> key, result |-> r.result, at |-> now]
    /\ calls' = calls + 1
    /\ UNCHANGED <<writers, now, latest_set>>
    /\ UNCHANGED <<align_vars, metrics_vars, entity_vars, interpret_vars, concurrent_vars>>

\* cache.invalidate(key)
DoInvalidate ==
    /\ calls < MaxCalls
    /\ \E key \in CacheKeys :
          /\ memory_cache' = IF key \in DOMAIN memory_cache
                             THEN Without(memory_cache, key) ELSE memory_cache
          /\ cache_files' = IF key \in DOMAIN cache_files
                            THEN Without(cache_files, key) ELSE cache_files
          /\ latest_set' = [latest_set EXCEPT ![key] = <<>>]
          /\ last_call' = [op |-> "invalidate", key |-> key,
                           result |-> IF key \in DOMAIN memory_cache
                                         \/ key \in DOMAIN cache_files
                                      THEN "True" ELSE "False",
                           at |-> now]
    /\ calls' = calls + 1
    /\ UNCHANGED <<writers, now>>
    /\ UNCHANGED <<align_vars, metrics_vars, entity_vars, interpret_vars, concurrent_vars>>

\* cache.clear()
DoClear ==
    /\ calls < MaxCalls
    /\ memory_cache' = <<>>
    /\ cache_files' = <<>>
    /\ latest_set' = [k \in CacheKeys |-> <<>>]
    /\ last_call' = [op |-> "clear", key |-> "", result |-> "None", at |-> now]
    /\ calls' = calls + 1
    /\ UNCHANGED <<writers, now>>
    /\ UNCHANGED <<align_vars, metrics_vars, entity_vars, interpret_vars, concurrent_vars>>

\* cache.cleanup_expired()
DoCleanupExpired ==
    /\ calls < MaxCalls
    /\ memory_cache' = CleanupMemory(memory_cache, now)
    /\ cache_files' = CleanupFiles(cache_files, now)
    /\ last_call' = [op |-> "cleanup_expired", key |-> "", result |-> "count", at |-> now]
    /\ calls' = calls + 1
    /\ UNCHANGED <<writers, now, latest_set>>
    /\ UNCHANGED <<align_vars, metrics_vars, entity_vars, interpret_vars, concurrent_vars>>

\* write_to_disk, `with open(cache_file, 'wb') as f`: the file is created,
\* or the file of that name is emptied
DoWriterOpen ==
    /\ \E w \in writers :
          /\ w.file = 0
          /\ LET file == IF w.key \in DOMAIN cache_files
                         THEN cache_files[w.key].file ELSE w.id
             IN  /\ cache_files' = With(cache_files, w.key, [content |-> <<>>, file |-> file])
                 /\ writers' = (writers \ {w}) \cup {[w EXCEPT !.file = file]}
    /\ UNCHANGED <<memory_cache, now, calls, last_call, latest_set>>
    /\ UNCHANGED <<align_vars, metrics_vars, entity_vars, interpret_vars, concurrent_vars>>

\* write_to_disk, `pickle.dump(entry, f)` and the end of the thread: the
\* entry goes to the file the thread opened, which is in the directory
\* unless it was unlinked since; where another thread has written to the
\* file since it was opened, the bytes of both may mix
DoWriterDump ==
    /\ \E w \in writers :
          /\ w.file # 0
          /\ IF w.key \in DOMAIN cache_files /\ cache_files[w.key].file = w.file
             THEN \E content \in (IF cache_files[w.key].content = <<>>
                                  THEN {<<w.entry>>} ELSE {<<w.entry>>, <<>>}) :
                      cache_files' = With(cache_files, w.key,
                                          [content |-> content, file |-> w.file])
             ELSE cache_files' = cache_files
          /\ writers' = writers \ {w}
    /\ UNCHANGED <<memory_cache, now, calls, last_call, latest_set>>
    /\ UNCHANGED <<align_vars, metrics_vars, entity_vars, interpret_vars, concurrent_vars>>

\* time.time() advances
DoTick ==
    /\ now < MaxTime
    /\ now' = now + 1
    /\ UNCHANGED <<memory_cache, cache_files, writers, calls, last_call, latest_set>>
    /\ UNCHANGED <<align_vars, metrics_vars, entity_vars, interpret_vars, concurrent_vars>>

NextCache ==
    \/ DoSet
    \/ DoGet
    \/ DoInvalidate
    \/ DoClear
    \/ DoCleanupExpired
    \/ DoWriterOpen
    \/ DoWriterDump
    \/ DoTick

SpecCache == InitCache /\ [][NextCache]_vars

(***************************************************************************)
(* Two analysis invocations in two threads: each aligns, calculates the    *)
(* metrics and analyses its own input, as fetch_and_analyze_data does      *)
(* (dashboard.py 563-571), one call at a time, the calls of the two        *)
(* threads in any order.  The aligner, the calculator and the analyzer are *)
(* created by the invocation; they hold their configuration and nothing of *)
(* the data, which is in the local variables of the invocation.            *)
(***************************************************************************)
Threads == {1, 2}

\* MetricsCalculator.__init__: the two calculators, which have no attribute
NewMetricsCalculator == [stock_calculator |-> <<>>, moon_calculator |-> <<>>]

\* StatisticalAnalyzer.__init__
NewStatisticalAnalyzer ==
    [alpha |-> Alpha, correlation_analyzer |-> <<>>, phase_analyzer |-> <<>>,
     volatility_analyzer |-> <<>>]

\* mutant of LocalsOf: the invocations keep their intermediate results in
\* one place
LocalsShared(t) == 1

\* the local variables of invocation t: those of its own calls
LocalsOf(t) == t

\* the prices and the moon data of the invocations: two weeks (10 trading
\* days), one week, two weeks in a zone at UTC+1, and one day a month away
\* from the moon data
ConcurrentInputs ==
    {<<[k \in 1..Len(dicts) |-> StockDataOf(dicts[k])],
       GetMoonPhase(PipelineBase, PipelineBase + 13)>> :
        dicts \in {StockDicts(0, 14, "naive", 0), StockDicts(0, 5, "naive", 0),
                   StockDicts(1, 14, "cet", 0), StockDicts(30, 1, "naive", 0)}}

\* the rolling window of the invocations
ConcurrentWindow == 2

NoLocals ==
    [stock_objects |-> <<>>, moon_objects |-> <<>>, aligner |-> <<>>,
     trading_stock_data |-> <<>>, aligned_data |-> <<>>, corrected_data |-> <<>>,
     calculator |-> <<>>, metrics_data |-> <<>>, analyzer |-> <<>>,
     scipy_p |-> NoResults, analysis_results |-> NoResults]

\* what an invocation hands back: the exception it ended with, and the
\* aligned records, the metrics and the report it had by then
ResultOf(error, locals) ==
    [error |-> error,
     aligned_data |-> locals.corrected_data,
     metrics_data |-> locals.metrics_data,
     scipy_p |-> locals.scipy_p,
     analysis_results |-> locals.analysis_results]

InitConcurrent ==
    /\ AlignIdle /\ MetricsIdle /\ EntityIdle /\ InterpretIdle /\ CacheIdle
    /\ \E a \in ConcurrentInputs : \E b \in ConcurrentInputs \ {a} :
          call_args = [t \in Threads |-> IF t = 1 THEN a ELSE b]
    /\ thread_pc = [t \in Threads |-> "start"]
    /\ frames = [t \in Threads |-> NoLocals]
    /\ returned = [t \in Threads |-> <<>>]

\* the invocation is entered: aligner = DataAligner(target_timezone)
DoEnter(t) ==
    /\ thread_pc[t] = "start"
    /\ frames' = [frames EXCEPT ![LocalsOf(t)] =
                     [NoLocals EXCEPT !.stock_objects = call_args[t][1],
                                      !.moon_objects = call_args[t][2],
                                      !.aligner = NewDataAligner(DefaultTimezone)]]
    /\ thread_pc' = [thread_pc EXCEPT ![t] = "entered"]
    /\ UNCHANGED <<call_args, returned>>
    /\ UNCHANGED <<align_vars, metrics_vars, entity_vars, interpret_vars, cache_vars>>

\* trading_stock_data = aligner.handle_market_closures(stock_data)
DoThreadClosures(t) ==
    /\ thread_pc[t] = "entered"
    /\ frames' = [frames EXCEPT ![LocalsOf(t)].trading_stock_data =
                     HandleMarketClosures(frames[LocalsOf(t)].stock_objects)]
    /\ thread_pc' = [thread_pc EXCEPT ![t] = "closures_handled"]
    /\ UNCHANGED <<call_args, returned>>
    /\ UNCHANGED <<align_vars, metrics_vars, entity_vars, interpret_vars, cache_vars>>

\* aligned_data = aligner.align_data_by_trading_dates(trading_stock_data, moon_data)
DoThreadAlign(t) ==
    /\ thread_pc[t] = "closures_handled"
    /\ LET locals == frames[LocalsOf(t)]
           r == AlignDataByTradingDates(locals.trading_stock_data, locals.moon_objects)
       IN  IF r.error = "none"
           THEN /\ frames' = [frames EXCEPT ![LocalsOf(t)].aligned_data = r.data]
                /\ thread_pc' = [thread_pc EXCEPT ![t] = "aligned"]
                /\ UNCHANGED returned
           ELSE /\ returned' = [returned EXCEPT ![t] = <<ResultOf(r.error, locals)>>]
                /\ thread_pc' = [thread_pc EXCEPT ![t] = "returned"]
                /\ UNCHANGED frames
    /\ UNCHANGED call_args
    /\ UNCHANGED <<align_vars, metrics_vars, entity_vars, interpret_vars, cache_vars>>

\* corrected_data = aligner.correct_timezone_misalignments(aligned_data);
\* calculator = MetricsCalculator()
DoThreadCorrect(t) ==
    /\ thread_pc[t] = "aligned"
    /\ frames' = [frames EXCEPT
                     ![LocalsOf(t)].corrected_data =
                         CorrectTimezoneMisalignments(frames[LocalsOf(t)].aligned_data),
                     ![LocalsOf(t)].calculator = NewMetricsCalculator]
    /\ thread_pc' = [thread_pc EXCEPT ![t] = "corrected"]
    /\ UNCHANGED <<call_args, returned>>
    /\ UNCHANGED <<align_vars, metrics_vars, entity_vars, interpret_vars, cache_vars>>

\* metrics_data = calculator.calculate_all_metrics(aligned_data, rolling_window);
\* analyzer = StatisticalAnalyzer()
DoThreadMetrics(t) ==
    /\ thread_pc[t] = "corrected"
    /\ frames' = [frames EXCEPT
                     ![LocalsOf(t)].metrics_data =
                         CalculateAllMetrics(frames[LocalsOf(t)].corrected_data,
                                             ConcurrentWindow),
                     ![LocalsOf(t)].analyzer = NewStatisticalAnalyzer]
    /\ thread_pc' = [thread_pc EXCEPT ![t] = "calculated"]
    /\ UNCHANGED <<call_args, returned>>
    /\ UNCHANGED <<align_vars, metrics_vars, entity_vars, interpret_vars, cache_vars>>

\* analysis_results = analyzer.perform_comprehensive_analysis(metrics_data),
\* and the return of the invocation
DoThreadAnalysis(t) ==
    /\ thread_pc[t] = "calculated"
    /\ LET locals == frames[LocalsOf(t)]
           error == PerformComprehensiveAnalysisError(locals.metrics_data)
       IN  \E anova_p \in AnovaOracles(locals.metrics_data) :
               \E pair_p \in PairOracles(locals.metrics_data, anova_p) :
                   LET done == [locals EXCEPT
                                   !.scipy_p = [anova |-> anova_p, pairs |-> pair_p],
                                   !.analysis_results =
                                       PerformComprehensiveAnalysis(locals.metrics_data,
                                                                    anova_p, pair_p)]
                   IN  /\ frames' = [frames EXCEPT ![LocalsOf(t)] = done]
                       /\ returned' = [returned EXCEPT ![t] = <<ResultOf(error, done)>>]
    /\ thread_pc' = [thread_pc EXCEPT ![t] = "returned"]
    /\ UNCHANGED call_args
    /\ UNCHANGED <<align_vars, metrics_vars, entity_vars, interpret_vars, cache_vars>>

NextConcurrent ==
    \E t \in Threads :
        \/ DoEnter(t)
        \/ DoThreadClosures(t)
        \/ DoThreadAlign(t)
        \/ DoThreadCorrect(t)
        \/ DoThreadMetrics(t)
        \/ DoThreadAnalysis(t)

SpecConcurrent == InitConcurrent /\ [][NextConcurrent]_vars

(***************************************************************************)
(* The interpretation of a correlation, applied to coefficients and        *)
(* p-values on and around its thresholds.                                  *)
(***************************************************************************)
\* the coefficients, in hundredths, and nan
Coefficients ==
    {Rat(k, 100) : k \in {-100, -71, -70, -69, -50, -49, -30, -29, -10, -9, -1, 0,
                          1, 9, 10, 11, 29, 30, 31, 49, 50, 51, 69, 70, 71, 100}}
        \cup {NaN}

\* the p-values, in thousandths, and nan
PValues == {Rat(k, 1000) : k \in {0, 1, 49, 50, 51, 500, 1000}} \cup {NaN}

\* the float r as the correlation operators hold it: its sign and its square
SignedSquare(r) ==
    IF ~IsFinite(r) THEN [sign |-> 0, sq |-> NaN]
    ELSE [sign |-> IF r[1] > 0 THEN 1 ELSE IF r[1] < 0 THEN -1 ELSE 0,
          sq |-> RatMul(r, r)]

InitInterpret ==
    /\ AlignIdle /\ MetricsIdle /\ EntityIdle /\ CacheIdle /\ ConcurrentIdle
    /\ \E r \in Coefficients : \E p_value \in PValues :
          correlation_args = <<[r |-> r, p_value |-> p_value]>>
    /\ interpretation = <<>>

\* self._interpret_correlation(r, p_value)
DoInterpretCorrelation ==
    /\ correlation_args # <<>>
    /\ interpretation = <<>>
    /\ interpretation' = <<InterpretCorrelation(SignedSquare(correlation_args[1].r),
                                                correlation_args[1].p_value)>>
    /\ UNCHANGED correlation_args
    /\ UNCHANGED <<align_vars, metrics_vars, entity_vars, cache_vars, concurrent_vars>>

NextInterpret == DoInterpretCorrelation

SpecInterpret == InitInterpret /\ [][NextInterpret]_vars

(***************************************************************************)
(* What the claims speak of.                                               *)
(***************************************************************************)
\* the tradability rule of the specification: Monday-Friday and none of the five
\* holidays of the date's own year
Tradable(date) ==
    /\ Weekday(date) \in 0..4
    /\ date \notin HolidaysOfYear(YearOf(date))

\* the calendar dates, in the reference zone, of a list of records
DatesOf(data) == {DateOf(NormalizeDatetimeToUtc(data[i].date)) : i \in 1..Len(data)}

\* the date maps and the same-date join of the run in progress
StockByDate == DictByDate(NormalizeTimestampsToUtc(trading_stock_data))

MoonByDate == DictByDate(NormalizeTimestampsToUtc(moon_data))

JoinedDates ==
    LET j == InitialJoin(StockByDate, MoonByDate)
    IN  {DateOf(j[i].date) : i \in 1..Len(j)}

OutputDates == {DateOf(corrected_data[i].date) : i \in 1..Len(corrected_data)}

\* C1: a non-empty result of create_aligned_dataset is strictly increasing by
\* date, holds no calendar date twice, carries one timezone throughout, and
\* validate_data_alignment accepts it.
C1_AlignedOutputWellFormed ==
    (align_pc = "returned" /\ corrected_data # <<>>) =>
        /\ \A i \in 1..(Len(corrected_data) - 1) :
              DateOf(corrected_data[i].date) < DateOf(corrected_data[i + 1].date)
        /\ \A i, j \in 1..Len(corrected_data) :
              i # j => DateOf(corrected_data[i].date) # DateOf(corrected_data[j].date)
        /\ \A i, j \in 1..Len(corrected_data) :
              corrected_data[i].date.tz = corrected_data[j].date.tz
        /\ ValidateDataAlignment(corrected_data)

\* C1's case: a result with a gap-filled record in the middle, from an
\* unsorted input that mixes timestamps with and without zone and holds two
\* records of one date
C1_Witness ==
    /\ align_pc = "returned"
    /\ Len(corrected_data) >= 3
    /\ OutputDates # JoinedDates
    /\ \E i, j \in 1..Len(stock_data) :
          /\ stock_data[i].date.tz = "naive" /\ stock_data[j].date.tz = "cet"
          /\ DateOf(NormalizeDatetimeToUtc(stock_data[i].date))
               = DateOf(NormalizeDatetimeToUtc(stock_data[j].date))
    /\ \E i \in 1..(Len(moon_data) - 1) :
          DateOf(moon_data[i].date) > DateOf(moon_data[i + 1].date)

\* C2: every record of the aligner's output has a tradable date: Monday to
\* Friday and none of the five holidays of that date's year.
C2_OutputDatesTradable ==
    align_pc = "returned" => \A d \in OutputDates : Tradable(d)

\* the inputs on whose days the aligner's holiday set and the rule agree
InputDays ==
    {stock_data[i].date.day : i \in 1..Len(stock_data)} \cup DatesOf(stock_data)
        \cup {moon_data[i].date.day : i \in 1..Len(moon_data)} \cup DatesOf(moon_data)

HolidaysKnown ==
    InputDays # {} =>
        \A d \in MinOf(InputDays)..MaxOf(InputDays) : IsTradingDay(d) = Tradable(d)

\* C3: when the two inputs have no tradable date in common, alignment raises;
\* it never returns an empty list.  (Stated for the inputs within the years
\* of the aligner's holiday set.)
C3_NoCommonTradableDateRaises ==
    HolidaysKnown =>
        /\ (align_pc \in {"aligned", "returned"}) =>
              \E d \in DatesOf(stock_data) \cap DatesOf(moon_data) : Tradable(d)
        /\ (align_pc = "returned") => corrected_data # <<>>

\* C4: the output dates among the dates present in both inputs are exactly the
\* tradable dates present in both inputs; when the secondary input has a
\* record for every primary date, the output is one record per tradable
\* primary date and nothing else.  (Stated for the inputs within the years of
\* the aligner's holiday set.)
C4_OutputIsTradableIntersection ==
    (HolidaysKnown /\ align_pc = "returned") =>
        LET both == DatesOf(stock_data) \cap DatesOf(moon_data)
        IN  /\ OutputDates \cap both = {d \in both : Tradable(d)}
            /\ DatesOf(stock_data) \subseteq DatesOf(moon_data) =>
                  /\ OutputDates = {d \in DatesOf(stock_data) : Tradable(d)}
                  /\ Len(corrected_data) = Cardinality(OutputDates)

\* the secondary date the gap fill must pick for d: the closest one, the
\* earlier one of two equally close
Nearest(d, near) ==
    CHOOSE m \in near : \A n \in near :
        \/ AbsInt(m - d) < AbsInt(n - d)
        \/ (AbsInt(m - d) = AbsInt(n - d) /\ m <= n)

\* the tradable dates within the joined range that the join left out although
\* a primary record exists
GapDates ==
    IF JoinedDates = {} THEN {}
    ELSE {d \in MinOf(JoinedDates)..MaxOf(JoinedDates) :
            /\ Tradable(d)
            /\ d \in DOMAIN StockByDate
            /\ d \notin DOMAIN MoonByDate}

NearDates(d) == {m \in DOMAIN MoonByDate : AbsInt(m - d) <= 3}

C5_WitnessUnfilled ==
    /\ align_pc = "returned"
    /\ \E d \in GapDates : NearDates(d) = {}

(***************************************************************************)
(* The Metrics Engine's claims.                                            *)
(***************************************************************************)
\* the list is not in the order of its dates
Unsorted(data) ==
    \E i, j \in 1..Len(data) : i < j /\ Instant(data[i].date) > Instant(data[j].date)

\* C6: no stage changes the list it is given: over a step of
\* create_aligned_dataset the two input lists, over calculate_all_metrics its
\* input list, and over the second calculation and
\* perform_comprehensive_analysis the list of metrics they are given, keep
\* their order and their records' field values.
C6_NoStageMutatesItsInput ==
    [][/\ stock_data' = stock_data
       /\ moon_data' = moon_data
       /\ combined_input' = combined_input
       /\ (metrics_pc = "calculated" => metrics_data' = metrics_data)]_vars

C6_Witness ==
    /\ metrics_pc = "analysis_raised"
    /\ Unsorted(combined_input)
    /\ metrics_data # combined_input

\* the fields of a record other than daily return, absolute return and
\* rolling volatility
NonDerived(r) ==
    [date |-> r.date, open |-> r.open, high |-> r.high, low |-> r.low,
     close |-> r.close, volume |-> r.volume,
     phase_code |-> r.phase_code, illumination |-> r.illumination,
     days_from_full_moon |-> r.days_from_full_moon,
     is_full_moon_window |-> r.is_full_moon_window,
     trading_day |-> r.trading_day, anomaly_score |-> r.anomaly_score]

\* the records of one date, in the order of the list, without derived fields
OfDate(data, d) ==
    LET on(r) == r.date = d
        sel == SelectSeq(data, on)
    IN  [k \in 1..Len(sel) |-> NonDerived(sel[k])]

\* C7: the output of calculate_all_metrics has the length of its input, is
\* in the order of its dates and holds, date by date and in the input's
\* order, the input's records with every field other than the three derived
\* ones as it was; the phase is as it was where phase and illumination
\* mismatch too.
C7_MetricsKeepNonDerivedFields ==
    metrics_pc # "start" /\ metrics_pc # "idle" =>
        /\ Len(metrics_data) = Len(combined_input)
        /\ ~Unsorted(metrics_data)
        /\ \A k \in 1..Len(combined_input) :
              OfDate(metrics_data, combined_input[k].date)
                  = OfDate(combined_input, combined_input[k].date)

C7_Witness ==
    /\ metrics_pc = "calculated"
    /\ Len(combined_input) >= 3
    /\ Unsorted(combined_input)
    /\ \E i, j \in 1..Len(combined_input) :
          i # j /\ combined_input[i].date = combined_input[j].date
                /\ combined_input[i].close # combined_input[j].close
    /\ \E k \in 1..Len(metrics_data) :
          /\ PhaseIlluminationMismatch(metrics_data[k].phase_code,
                                       metrics_data[k].illumination)
          /\ metrics_data[k].daily_return # combined_input[k].daily_return

\* C8 as the specification states it: for a non-empty input, record 0 of
\* the output has daily return 0 and absolute return 0, and a record i > 0
\* has daily return (close[i] - close[i-1]) / close[i-1] * 100, or 0 when
\* close[i-1] <= 0, and absolute return the absolute value of it.
C8_DailyReturnOfEveryRecord ==
    metrics_pc # "start" /\ metrics_pc # "idle" /\ Len(combined_input) >= 1 =>
        /\ metrics_data[1].daily_return = <<0, 1>>
        /\ metrics_data[1].abs_return = <<0, 1>>
        /\ \A k \in 2..Len(metrics_data) :
              LET r == metrics_data[k].daily_return
                  prev == metrics_data[k - 1].close
                  cur == metrics_data[k].close
              IN  /\ r # None
                  /\ r[2] > 0
                  /\ IF prev > 0 THEN r[1] * prev = (cur - prev) * 100 * r[2]
                     ELSE r[1] = 0
                  /\ metrics_data[k].abs_return = <<AbsInt(r[1]), r[2]>>

\* what calculate_all_metrics does on the inputs of two and more records
C8_DailyReturnFromTwoRecords ==
    Len(combined_input) >= 2 => C8_DailyReturnOfEveryRecord

C8_Witness ==
    /\ metrics_pc = "calculated"
    /\ Len(combined_input) >= 2
    /\ \E k \in 2..Len(metrics_data) :
          metrics_data[k - 1].close <= 0 /\ metrics_data[k].close > 0
    /\ \E k \in 2..Len(metrics_data) :
          metrics_data[k - 1].close > 0 /\ metrics_data[k].daily_return[1] < 0

\* the rolling volatility of the records is undefined before index w and a
\* non-negative number from index w on
VolatilityFromWindowOn(w) ==
    \A k \in 1..Len(metrics_data) :
        LET v == metrics_data[k].volatility_7d
        IN  IF k - 1 < w THEN v = None
            ELSE v # None /\ v[2] > 0 /\ v[1] >= 0

\* C9 as the specification states it: for every window w >= 1 and every
\* input of at least w + 1 records, the rolling volatility is undefined at
\* the indices 0..w-1 and defined, non-negative, at every index >= w.
C9_VolatilityDefinedFromWindowOn ==
    metrics_pc # "start" /\ metrics_pc # "idle"
        /\ rolling_window >= 1 /\ Len(combined_input) >= rolling_window + 1 =>
        VolatilityFromWindowOn(rolling_window)

\* C9, amended: the same for every window w >= 2; with the window 1 the
\* window of a record holds one return and the rolling volatility is
\* undefined at every index.
C9_VolatilityDefinedFromWindowTwo ==
    metrics_pc # "start" /\ metrics_pc # "idle"
        /\ Len(combined_input) >= rolling_window + 1 =>
        IF rolling_window >= 2 THEN VolatilityFromWindowOn(rolling_window)
        ELSE \A k \in 1..Len(metrics_data) : metrics_data[k].volatility_7d = None

C9_Witness ==
    /\ metrics_pc = "calculated"
    /\ rolling_window = 2
    /\ Len(combined_input) >= rolling_window + 2
    /\ metrics_data[rolling_window].volatility_7d = None
    /\ metrics_data[rolling_window + 1].volatility_7d # None
    /\ metrics_data[rolling_window + 2].volatility_7d[1] > 0
    /\ combined_input[1].volatility_7d # None

C9_WitnessWindowOne ==
    /\ metrics_pc = "calculated"
    /\ rolling_window = 1
    /\ Len(combined_input) >= 3
    /\ metrics_data[2].daily_return # metrics_data[3].daily_return

\* the three derived fields of a record
Derived(r) ==
    [daily_return |-> r.daily_return, abs_return |-> r.abs_return,
     volatility_7d |-> r.volatility_7d]

\* C10: calculate_all_metrics on its own output, with the same window,
\* gives at every index the daily return, absolute return and rolling
\* volatility of that output.
C10_MetricsIdempotent ==
    metrics_pc = "recalculated" =>
        /\ Len(metrics_again) = Len(metrics_data)
        /\ \A k \in 1..Len(metrics_data) :
              Derived(metrics_again[k]) = Derived(metrics_data[k])

C10_Witness ==
    /\ metrics_pc = "recalculated"
    /\ Unsorted(combined_input)
    /\ \E k \in 1..Len(metrics_again) :
          /\ metrics_again[k].volatility_7d # None
          /\ metrics_again[k].volatility_7d[1] > 0
          /\ metrics_again[k].daily_return # combined_input[k].daily_return

(***************************************************************************)
(* Statistical Engine.                                                     *)
(***************************************************************************)
\* perform_comprehensive_analysis has been called and has raised or returned
Analysed == metrics_pc \in {"analysed", "analysis_raised"}

\* the values of a field that are not None
DefinedValues(data, field) ==
    SelectSeq([i \in 1..Len(data) |-> data[i][field]], LAMBDA v : v # None)

\* C11: perform_comprehensive_analysis raises its insufficient-data error
\* for every list of fewer than 10 records, 9 included, and returns a report
\* for every list of 10 and more records, however many of them have a
\* return or a volatility.
C11_FewerThanTenRecordsRaise ==
    Analysed =>
        /\ Len(metrics_data) < 10 =>
              /\ metrics_pc = "analysis_raised"
              /\ analysis_error = "ValidationError"
              /\ analysis_results = NoResults
        /\ Len(metrics_data) >= 10 =>
              /\ metrics_pc = "analysed"
              /\ analysis_error = "none"
              /\ analysis_results # NoResults

C11_Witness ==
    /\ metrics_pc = "analysis_raised"
    /\ Len(metrics_data) = 9
    /\ Len(DefinedValues(metrics_data, "volatility_7d")) = 9

C11_WitnessNothingDefined ==
    /\ metrics_pc = "analysed"
    /\ Len(metrics_data) = 10
    /\ DefinedValues(metrics_data, "daily_return") = <<>>
    /\ Len(DefinedValues(metrics_data, "volatility_7d")) < 10

\* the pipeline's run has ended: an exception, or the report
PipelineEnded ==
    \/ entity_pc = "raised"
    \/ (entity_pc = "created" /\ align_pc = "raised")
    \/ (entity_pc = "created" /\ Analysed)

\* the three hard failures, told from the input of the run
InvalidEntityInput ==
    \E i \in 1..Len(stock_dicts) :
        \E f \in {"open", "high", "low", "close", "volume"} : stock_dicts[i][f] < 0

NoTradableOverlap ==
    /\ ~InvalidEntityInput
    /\ ~\E d \in DatesOf(stock_data) \cap DatesOf(moon_data) : Tradable(d)

TooFewRecords ==
    /\ ~InvalidEntityInput
    /\ ~NoTradableOverlap
    /\ Analysed
    /\ Len(metrics_data) < 10

\* the errors of invalid entity input
EntityErrors ==
    {[class |-> "ValueError", message |-> "Stock prices cannot be negative"],
     [class |-> "ValidationError", message |-> "Price field cannot be negative"]}

\* C12: each hard failure of the pipeline (invalid entity input, no
\* overlapping tradable date, fewer than 10 records for the analysis)
\* reaches the caller as an error that tells which of the three it is, and
\* is never an empty or zero-filled result.
C12_HardFailuresIdentified ==
    PipelineEnded =>
        /\ InvalidEntityInput => CallerError \in EntityErrors
        /\ NoTradableOverlap => CallerError = AlignmentErrorOf("ValidationError")
        /\ TooFewRecords => CallerError = AnalysisErrorOf("ValidationError")
        /\ AlignmentErrorOf("ValidationError") # AnalysisErrorOf("ValidationError")
        /\ AlignmentErrorOf("ValidationError") \notin EntityErrors
        /\ AnalysisErrorOf("ValidationError") \notin EntityErrors

\* the failures other than a missing tradable overlap are identified
C12_OtherFailuresIdentified ==
    PipelineEnded =>
        /\ InvalidEntityInput => CallerError \in EntityErrors
        /\ (NoTradableOverlap /\ DatesOf(stock_data) \cap DatesOf(moon_data) = {})
              => CallerError = AlignmentErrorOf("ValidationError")
        /\ TooFewRecords => CallerError = AnalysisErrorOf("ValidationError")
        /\ (~InvalidEntityInput /\ ~NoTradableOverlap /\ ~TooFewRecords)
              => (CallerError = NoError /\ analysis_results # NoResults)

\* the correlations of the report
Correlations == analysis_results.correlations

\* the six pairs of a market metric and a moon metric
MetricPairs ==
    {"daily_return", "abs_return", "volatility_7d"}
        \X {"illumination", "days_from_full_moon"}

\* the key of analyze_correlations for a pair; the pair of absolute return
\* and offset has none
KeyOfPair(pair) ==
    IF pair = <<"daily_return", "illumination">> THEN "returns_vs_illumination"
    ELSE IF pair = <<"daily_return", "days_from_full_moon">> THEN "returns_vs_days_from_full"
    ELSE IF pair = <<"volatility_7d", "illumination">> THEN "volatility_vs_illumination"
    ELSE IF pair = <<"volatility_7d", "days_from_full_moon">>
        THEN "volatility_vs_days_from_full"
    ELSE IF pair = <<"abs_return", "illumination">> THEN "abs_returns_vs_illumination"
    ELSE "abs_returns_vs_days_from_full"

\* the records where both operands of a pair are defined numbers
ValidRecords(data, pair) ==
    {i \in 1..Len(data) : data[i][pair[1]] # None /\ IsFinite(data[i][pair[1]])}

\* C13: for every input of 10 and more records the correlation section
\* holds one result for each of the six pairs of {daily return, absolute
\* return, rolling volatility} and {intensity, offset}, computed over
\* exactly the records where both operands are defined.
C13_SixCorrelationPairs ==
    metrics_pc = "analysed" =>
        \A pair \in MetricPairs :
            /\ KeyOfPair(pair) \in DOMAIN Correlations
            /\ Correlations[KeyOfPair(pair)].sample_size
                  = Cardinality(ValidRecords(metrics_data, pair))

\* C14: a reported correlation over fewer than 3 valid pairs, 2 included,
\* is the insufficient-data result (r = 0 and p = 1, Pearson and Spearman),
\* and one over 3 and more valid pairs is a computed result.
C14_ThreeValidPairsFloor ==
    metrics_pc = "analysed" =>
        \A pair \in MetricPairs :
            KeyOfPair(pair) \in DOMAIN Correlations =>
                LET result == Correlations[KeyOfPair(pair)]
                    valid == Cardinality(ValidRecords(metrics_data, pair))
                IN  /\ valid < 3 =>
                          /\ result.pearson_p_value = One
                          /\ result.spearman_p_value = One
                          /\ result.pearson_correlation = ZeroR
                          /\ result.spearman_correlation = ZeroR
                    /\ valid >= 3 =>
                          /\ result.pearson_p_value = <<"pearsonr">>
                          /\ result.spearman_p_value = <<"spearmanr">>
                          /\ result.spearman_correlation = <<"spearmanr">>
                          /\ result.sample_size = valid

C14_Witness ==
    /\ metrics_pc = "analysed"
    /\ \E key \in DOMAIN Correlations :
          /\ Correlations[key].sample_size = 2
          /\ Correlations[key].pearson_p_value = One

C14_WitnessComputed ==
    /\ metrics_pc = "analysed"
    /\ \E key \in DOMAIN Correlations :
          /\ Correlations[key].sample_size = 3
          /\ Correlations[key].pearson_p_value = <<"pearsonr">>

\* a bound of a confidence interval that is a number, not the name of a
\* computed value
IsNumber(b) == Len(b) = 2

\* b <= r and r <= b for a number b and a correlation r held as sign and
\* square
BoundAtMostR(b, r) ==
    IF b[1] <= 0 /\ r.sign >= 0 THEN TRUE
    ELSE IF b[1] > 0 /\ r.sign <= 0 THEN FALSE
    ELSE IF b[1] > 0 THEN ~RatLess(r.sq, RatMul(b, b))
    ELSE ~RatLess(RatMul(b, b), r.sq)

RAtMostBound(r, b) ==
    IF r.sign <= 0 /\ b[1] >= 0 THEN TRUE
    ELSE IF r.sign > 0 /\ b[1] <= 0 THEN FALSE
    ELSE IF r.sign > 0 THEN ~RatLess(RatMul(b, b), r.sq)
    ELSE ~RatLess(r.sq, RatMul(b, b))

\* lower <= r <= upper with both bounds in [-1, 1]; the bounds tanh gives
\* around arctanh(r) are
IntervalHolds(ci, r) ==
    /\ IsNumber(ci[1]) =>
          /\ IsFinite(ci[1])
          /\ BoundAtMostR(ci[1], r)
          /\ ~RatLess(ci[1], Rat(-1, 1))
    /\ IsNumber(ci[2]) =>
          /\ IsFinite(ci[2])
          /\ RAtMostBound(r, ci[2])
          /\ ~RatLess(One, ci[2])

\* C15: every correlation result with n >= 3 and r in [-1, 1] has a 95%
\* confidence interval with lower <= r <= upper and both bounds in [-1, 1].
C15_IntervalContainsR ==
    metrics_pc = "analysed" =>
        \A key \in DOMAIN Correlations :
            LET result == Correlations[key]
            IN  (result.sample_size >= 3 /\ IsFinite(result.pearson_correlation.sq)) =>
                    IntervalHolds(result.confidence_interval_95,
                                  result.pearson_correlation)

\* the phase analysis of the report
PhaseAnalysis == analysis_results.phase_analysis

\* the volatility samples of a phase
VolatilitySamples(data, phase) ==
    Cardinality({i \in 1..Len(data) :
                    data[i].phase_code = phase /\ data[i].volatility_7d # None})

\* the phases with 3 and more volatility samples
QualifyingPhases(data) == {ph \in 0..7 : VolatilitySamples(data, ph) >= 3}

\* the ANOVA is the default F = 0, p = 1
AnovaIsDefault ==
    PhaseAnalysis.anova_f_statistic = Zero /\ PhaseAnalysis.anova_p_value = One

\* C16: the ANOVA of the phase analysis differs from the default (F = 0,
\* p = 1) only when 2 and more phase groups have 3 and more volatility
\* samples each; otherwise it is exactly the default.
C16_AnovaNeedsTwoGroups ==
    metrics_pc = "analysed" =>
        (Cardinality(QualifyingPhases(metrics_data)) < 2 => AnovaIsDefault)

C16_Witness ==
    /\ metrics_pc = "analysed"
    /\ Cardinality(QualifyingPhases(metrics_data)) = 1
    /\ Len(DefinedValues(metrics_data, "volatility_7d")) >= 10
    /\ AnovaIsDefault

C16_WitnessComputed ==
    /\ metrics_pc = "analysed"
    /\ Cardinality(QualifyingPhases(metrics_data)) = 2
    /\ ~AnovaIsDefault

\* C17: when the p-value of the overall ANOVA is 0.05 or more, the default
\* 1.0 included, the list of significant pairwise differences is empty.
C17_NoPairsWithoutSignificantAnova ==
    metrics_pc = "analysed" =>
        ((IsFinite(PhaseAnalysis.anova_p_value)
            /\ ~RatLess(PhaseAnalysis.anova_p_value, Rat(5, 100)))
          => PhaseAnalysis.significant_differences = <<>>)

C17_Witness ==
    /\ metrics_pc = "analysed"
    /\ ~AnovaIsDefault
    /\ PhaseAnalysis.anova_p_value = Rat(1, 2)
    /\ \E pr \in DOMAIN scipy_p.pairs : RatLess(scipy_p.pairs[pr], Rat(5, 2800))

\* the pair of phases is in the list of significant differences
Recorded(a, b) ==
    \E i \in 1..Len(PhaseAnalysis.significant_differences) :
        {PhaseAnalysis.significant_differences[i][1],
         PhaseAnalysis.significant_differences[i][2]} = {a, b}

\* C18: when the pairwise tests run, a pair is recorded iff both phases
\* have 3 and more volatility samples and its p-value is below
\* 0.05 / C(k, 2), k being the number of phases that take part in the
\* pairwise comparison of this input.
C18_ThresholdFromPhasesCompared ==
    (metrics_pc = "analysed" /\ RatLess(PhaseAnalysis.anova_p_value, Rat(5, 100))) =>
        LET compared == QualifyingPhases(metrics_data)
            k == Cardinality(compared)
            threshold == RatDiv(Rat(5, 100), Rat(k * (k - 1), 2))
        IN  \A a, b \in 0..7 :
                a < b =>
                    (Recorded(a, b) <=>
                        /\ a \in compared
                        /\ b \in compared
                        /\ RatLess(scipy_p.pairs[{a, b}], threshold))

\* the peak-window analysis of the report
FullMoonAnalysis == analysis_results.full_moon_analysis

\* the defined observations of a metric in the near-peak partition
\* (flag TRUE) or the baseline partition (flag FALSE)
Observations(data, field, flag) ==
    Cardinality({i \in 1..Len(data) :
                    data[i].is_full_moon_window = flag /\ data[i][field] # None})

\* a structured insufficient-data marker
IsMarker(result) == DOMAIN result = {"error"}

\* the two metrics of the peak-window analysis and the key of each
PeakMetrics ==
    {<<"abs_return", "return_comparison">>, <<"volatility_7d", "volatility_comparison">>}

\* C19: for each of absolute return and rolling volatility, if the
\* near-peak or the baseline partition has fewer than 3 defined
\* observations of the metric, the result for the metric is an
\* insufficient-data marker; a metric with 3 and more in both partitions
\* has a computed comparison in the same report; nothing is raised.
C19_PeakWindowDegradesPerMetric ==
    (Analysed /\ Len(metrics_data) >= 10) =>
        /\ metrics_pc = "analysed"
        /\ \A m \in PeakMetrics :
              IF Observations(metrics_data, m[1], TRUE) < 3
                    \/ Observations(metrics_data, m[1], FALSE) < 3
              THEN IsMarker(FullMoonAnalysis)
                      \/ IsMarker(FullMoonAnalysis[m[2]])
              ELSE /\ ~IsMarker(FullMoonAnalysis)
                   /\ ~IsMarker(FullMoonAnalysis[m[2]])
                   /\ FullMoonAnalysis[m[2]].group1_stats.n
                         = Observations(metrics_data, m[1], TRUE)
                   /\ FullMoonAnalysis[m[2]].group2_stats.n
                         = Observations(metrics_data, m[1], FALSE)

C19_Witness ==
    /\ metrics_pc = "analysed"
    /\ Observations(metrics_data, "volatility_7d", TRUE) < 3
    /\ Observations(metrics_data, "abs_return", TRUE) >= 3
    /\ Observations(metrics_data, "abs_return", FALSE) >= 3
    /\ ~IsMarker(FullMoonAnalysis)
    /\ IsMarker(FullMoonAnalysis.volatility_comparison)
    /\ ~IsMarker(FullMoonAnalysis.return_comparison)

\* the flag of a record is TRUE exactly within 2 days of the peak
FlagMatchesOffset(r) ==
    r.is_full_moon_window <=> (AbsInt(r.days_from_full_moon) <= 2)

\* C20: every MoonData the system accepts, and every CombinedDataPoint
\* derived from it, has its near-peak flag TRUE iff |offset| <= 2, whether
\* it was built by the class, by the factory from a dict with or without
\* the key of the flag, or by the phase calculator.
C20_FlagIffWithinTwoDays ==
    /\ \A i \in 1..Len(moon_entity) : FlagMatchesOffset(moon_entity[i])
    /\ \A i \in 1..Len(combined_entity) : FlagMatchesOffset(combined_entity[i])

\* the records of the phase calculator have the flag of their offset
C20_CalculatorFlagMatches ==
    request.path = "calculator" =>
        /\ \A i \in 1..Len(moon_entity) : FlagMatchesOffset(moon_entity[i])
        /\ \A i \in 1..Len(combined_entity) : FlagMatchesOffset(combined_entity[i])

(***************************************************************************)
(* The window of the rolling volatility.                                   *)
(***************************************************************************)
\* the daily returns of the records from .. to (indices from 0) of the list
\* in date order, each from the closes of the record and of the one before it
ReturnsOfRecords(sorted, from, to) ==
    [j \in 1..(to - from + 1) |->
        CalculateDailyReturn(sorted[from + j].close, sorted[from + j - 1].close)]

\* C26: whenever calculate_rolling_volatility gives a value at index i for
\* window w, it is the sample deviation of exactly w daily returns, those of
\* the records i-w+1..i in date order, each recomputed from consecutive
\* closes; record 0 (whose return is the placeholder 0) is never one of them.
\* Every value the Metrics Engine computes is such a value.
C26_WindowIsLastWReturns ==
    metrics_pc = "calculated" =>
        LET sorted == SortByDate(combined_input)
            w == rolling_window
        IN  \A k \in 1..Len(sorted) :
                LET i == k - 1
                    v == CalculateRollingVolatility(sorted, i, w)
                IN  /\ v # None =>
                          /\ i - w + 1 >= 1
                          /\ Len(ReturnsOfRecords(sorted, i - w + 1, i)) = w
                          /\ v = SampleVariance(ReturnsOfRecords(sorted, i - w + 1, i))
                    /\ Len(sorted) >= 2 => metrics_data[k].volatility_7d = v

\* C26's case: the window 3 with a value at index 3, which differs from the
\* one a window holding record 0's placeholder would give
C26_Witness ==
    /\ metrics_pc = "calculated"
    /\ rolling_window = 3
    /\ Len(metrics_data) >= 4
    /\ metrics_data[4].volatility_7d # None
    /\ metrics_data[4].volatility_7d[1] > 0
    /\ metrics_data[4].volatility_7d
         # SampleVariance(<<Zero>> \o ReturnsOfRecords(metrics_data, 1, 2))

(***************************************************************************)
(* The condition of the one-way ANOVA.                                     *)
(***************************************************************************)
\* C27: for every input in which 2 and more phases have 3 and more defined
\* volatility observations each, the one-way ANOVA is run, over exactly
\* those phases; no other condition on the data suppresses it.
C27_AnovaRunsOnTwoQualifyingPhases ==
    (metrics_pc = "analysed" /\ Cardinality(QualifyingPhases(metrics_data)) >= 2) =>
        /\ ~AnovaIsDefault
        /\ PhaseAnalysis.anova_p_value = scipy_p.anova
        /\ AnovaPhases(metrics_data) = QualifyingPhases(metrics_data)

(***************************************************************************)
(* The phase metrics of the phase-group comparison.                        *)
(***************************************************************************)
RECURSIVE SumOfCounts(_)
SumOfCounts(metrics) ==
    IF metrics = <<>> THEN 0
    ELSE metrics[1].sample_count + SumOfCounts(Tail(metrics))

\* C29: the phase-group result holds exactly one PhaseMetric for each phase
\* that occurs in the input and none for a phase without records, listed in
\* the order of the cycle; each sample count is the number of records of its
\* phase, and the sample counts sum to the number of input records.
C29_OnePhaseMetricPerPhasePresent ==
    metrics_pc = "analysed" =>
        LET pm == PhaseAnalysis.phase_metrics
        IN  /\ {pm[k].phase : k \in 1..Len(pm)}
                 = {metrics_data[i].phase_code : i \in 1..Len(metrics_data)}
            /\ \A k \in 1..(Len(pm) - 1) : pm[k].phase < pm[k + 1].phase
            /\ \A k \in 1..Len(pm) :
                  pm[k].sample_count
                     = Cardinality({i \in 1..Len(metrics_data) :
                                       metrics_data[i].phase_code = pm[k].phase})
            /\ SumOfCounts(pm) = Len(metrics_data)

\* C29's case: three and more phases present, not all eight, met in the
\* input in another order than the cycle's
C29_Witness ==
    /\ metrics_pc = "analysed"
    /\ Len(PhaseAnalysis.phase_metrics) \in 3..7
    /\ \E i, j \in 1..Len(metrics_data) :
          i < j /\ metrics_data[i].phase_code > metrics_data[j].phase_code

(***************************************************************************)
(* The range of the gap fill.                                              *)
(***************************************************************************)
\* the dates of the primary records outside the range of the same-date join
\* that the aligner holds to be trading days and that have a secondary record
\* within 3 days but none of the same date
OutsideDates ==
    IF JoinedDates = {} THEN {}
    ELSE {d \in DOMAIN StockByDate :
            /\ (d < MinOf(JoinedDates) \/ d > MaxOf(JoinedDates))
            /\ IsTradingDay(d)
            /\ d \notin DOMAIN MoonByDate
            /\ NearDates(d) # {}}

\* C30: the aligner emits no record dated before the earliest or after the
\* latest date of the same-date join; a primary record on a tradable date
\* outside that range without a same-date secondary record is absent from
\* the output even when a secondary record exists within 3 days.
C30_GapFillWithinJoinedRange ==
    align_pc = "returned" =>
        /\ JoinedDates = {} => corrected_data = <<>>
        /\ JoinedDates # {} =>
              \A d \in OutputDates : MinOf(JoinedDates) <= d /\ d <= MaxOf(JoinedDates)
        /\ OutsideDates \cap OutputDates = {}

\* C30's case: a primary record outside the joined range, one day from a
\* secondary record, next to a run whose gap inside the range is filled
C30_Witness ==
    /\ align_pc = "returned"
    /\ \E d \in OutsideDates : \E m \in NearDates(d) : AbsInt(m - d) = 1
    /\ OutputDates # {}

C30_WitnessWithFill ==
    /\ align_pc = "returned"
    /\ OutsideDates # {}
    /\ OutputDates # JoinedDates

(***************************************************************************)
(* The interpretation of a correlation.                                    *)
(***************************************************************************)
\* |r| < num / den, for a float r that is a number
AbsBelow(r, num, den) == RatLess(RatAbs(r), Rat(num, den))

\* C28: the interpretation is a total function of (r, p): the strength is
\* negligible for |r| < 0.1, weak for |r| < 0.3, moderate for |r| < 0.5,
\* strong for |r| < 0.7 and very strong for |r| >= 0.7; the direction is
\* positive for r > 0 and negative for r < 0; the text says significant
\* exactly when p < 0.05.
C28_InterpretationByThresholds ==
    \A n \in 1..Len(interpretation) :
        LET r == correlation_args[1].r
            p_value == correlation_args[1].p_value
            text == interpretation[n]
        IN  /\ Len(text) = 3
            /\ IsFinite(r) =>
                  /\ text[1] = (IF AbsBelow(r, 1, 10) THEN "negligible"
                                ELSE IF AbsBelow(r, 3, 10) THEN "weak"
                                ELSE IF AbsBelow(r, 5, 10) THEN "moderate"
                                ELSE IF AbsBelow(r, 7, 10) THEN "strong"
                                ELSE "very strong")
                  /\ RatLess(Zero, r) => text[2] = "positive"
                  /\ RatLess(r, Zero) => text[2] = "negative"
            /\ IsFinite(p_value) =>
                  (text[3] = "significant" <=> RatLess(p_value, Rat(5, 100)))
            /\ text[3] \in {"significant", "not significant"}

\* C28's case: a coefficient on a threshold with the p-value on its own
C28_Witness ==
    /\ interpretation # <<>>
    /\ correlation_args[1].r = Rat(-7, 10)
    /\ correlation_args[1].p_value = Rat(5, 100)
    /\ interpretation[1] = <<"very strong", "negative", "not significant">>

C28_WitnessWeak ==
    /\ interpretation # <<>>
    /\ correlation_args[1].r = Rat(1, 10)
    /\ correlation_args[1].p_value = Rat(49, 1000)
    /\ interpretation[1] = <<"weak", "positive", "significant">>

(***************************************************************************)
(* The validation of the records at their construction.                    *)
(***************************************************************************)
\* the construction of the request has been carried out
Constructed == entity_pc \in {"constructed", "constructed_stock", "combined", "raised"}

\* the prices of a request for a StockData are in the order low <= open,
\* close <= high
PricesInOrder(r) ==
    r.low <= r.open /\ r.low <= r.close /\ r.open <= r.high /\ r.close <= r.high

\* C21: the construction of a StockData with a negative price or a negative
\* volume, and of a MoonData with an illumination outside [0, 100] or a phase
\* outside the 8 categories, fails with a validation error and yields no
\* record; a StockData that violates nothing but low <= open, close <= high
\* is accepted with the fields it was given.
C21_InvalidRecordsRejected ==
    Constructed =>
        /\ request.path = "stock" =>
              IF \/ \E i \in 1..4 : request[PriceFields[i]] < 0
                 \/ request.volume < 0
              THEN /\ entity_error.class \in {"ValueError", "ValidationError"}
                   /\ stock_entity = <<>>
              ELSE /\ entity_error = NoError
                   /\ Len(stock_entity) = 1
                   /\ \A i \in 1..4 :
                         stock_entity[1][PriceFields[i]] = request[PriceFields[i]]
                   /\ stock_entity[1].volume = request.volume
                   /\ stock_entity[1].date = Stamp(request.day, "naive")
        /\ (/\ request.path \in {"direct", "dict_with_flag", "dict_without_flag"}
            /\ (\/ request.illumination < 0
                \/ request.illumination > 100
                \/ request.phase_code \notin 0..7)) =>
                  /\ entity_error.class \in {"ValueError", "ValidationError"}
                  /\ moon_entity = <<>>
                  /\ combined_entity = <<>>

\* C21's case: a StockData with nothing but its prices out of order, built
C21_Witness ==
    /\ entity_pc = "constructed_stock"
    /\ ~PricesInOrder(request)
    /\ request.low > request.high
    /\ stock_entity # <<>>

\* a StockData with a negative volume alone, and a MoonData with the
\* illumination -1 alone, refused
C21_WitnessVolume ==
    /\ entity_pc = "raised"
    /\ request.path = "stock"
    /\ request.volume < 0
    /\ \A i \in 1..4 : request[PriceFields[i]] > 0

C21_WitnessIllumination ==
    /\ entity_pc = "raised"
    /\ request.path = "direct"
    /\ request.illumination = -1
    /\ request.is_enum /\ request.phase_code \in 0..7

(***************************************************************************)
(* The zone of the normalised timestamps.                                  *)
(***************************************************************************)
\* dt is the timestamp the normalisation to the zone makes of the input's
\* timestamp: a timestamp without zone keeps its wall clock and gets the
\* zone, one of another zone is the same instant in the zone
NormalisedTo(zone, from, dt) ==
    /\ dt.tz = zone
    /\ IF from.tz = "naive" THEN dt.day = from.day /\ dt.hour = from.hour
       ELSE Instant(dt) = Instant(from)

\* C23: after normalisation every timestamp of both inputs, and every
\* timestamp of the output of create_aligned_dataset, is in the target
\* timezone that was passed to the aligner.
C23_TimestampsInTargetZone ==
    align_pc = "returned" =>
        /\ \A i \in 1..Len(stock_data) :
              NormalisedTo(target_timezone, stock_data[i].date,
                           NormalizeTimestampsToUtc(stock_data)[i].date)
        /\ \A i \in 1..Len(moon_data) :
              NormalisedTo(target_timezone, moon_data[i].date,
                           NormalizeTimestampsToUtc(moon_data)[i].date)
        /\ \A i \in 1..Len(corrected_data) :
              corrected_data[i].date.tz = target_timezone

(***************************************************************************)
(* The cache.                                                              *)
(***************************************************************************)
\* C24: once clear() has returned, and until the next call, the cache holds
\* no entry in memory and none on disk (memory_entries + disk_entries = 0),
\* whatever sets came before it, those included whose disk write had not
\* run when clear was called.
C24_ClearLeavesNoEntry ==
    last_call.op = "clear" => CacheEntries(memory_cache, cache_files) = 0

\* what get(key, default) is to return at the time `at`: the value of the
\* most recent set of the key when its time-to-live has not elapsed and
\* neither invalidate(key) nor clear() came after it, the default otherwise
ExpectedOfGet(key, at) ==
    IF latest_set[key] # <<>> /\ latest_set[key][1].expiry > at
    THEN latest_set[key][1].data
    ELSE CacheDefault

\* C25: after any sequence of set, get, invalidate and clear calls,
\* get(key, default) returns the value of the most recent set(key, ...) if
\* the time-to-live of that entry has not elapsed and no invalidate(key) or
\* clear() came after it, and the default otherwise.
C25_GetReturnsLatestLiveValue ==
    last_call.op = "get" => last_call.result = ExpectedOfGet(last_call.key, last_call.at)

(***************************************************************************)
(* The independence of concurrent invocations.                             *)
(***************************************************************************)
\* the alignment of one invocation's input, run alone
AlignedAlone(args) ==
    AlignDataByTradingDates(HandleMarketClosures(args[1]), args[2])

\* the metrics of one invocation's input, run alone
MetricsAlone(args) ==
    CalculateAllMetrics(CorrectTimezoneMisalignments(AlignedAlone(args).data),
                        ConcurrentWindow)

\* C22: two analysis invocations (align, then metrics, then statistics) that
\* run concurrently on different inputs do not interfere: under every
\* interleaving each returns what it returns when run alone.
C22_InvocationsDoNotInterfere ==
    \A t \in DOMAIN returned :
        returned[t] # <<>> =>
            LET result == returned[t][1]
                alone == AlignedAlone(call_args[t])
            IN  IF alone.error # "none"
                THEN /\ result.error = alone.error
                     /\ result.aligned_data = <<>>
                     /\ result.metrics_data = <<>>
                ELSE /\ result.aligned_data = CorrectTimezoneMisalignments(alone.data)
                     /\ result.metrics_data = MetricsAlone(call_args[t])
                     /\ result.error
                          = PerformComprehensiveAnalysisError(MetricsAlone(call_args[t]))
                     /\ result.analysis_results
                          = PerformComprehensiveAnalysis(MetricsAlone(call_args[t]),
                                result.scipy_p.anova, result.scipy_p.pairs)

\* C22's case: both invocations have returned, one with a report and one
\* with fewer records than the analysis takes, and the second was entered
\* while the first was between two of its calls
C22_Witness ==
    /\ \A t \in DOMAIN returned : returned[t] # <<>>
    /\ \E t, u \in DOMAIN returned :
          /\ returned[t][1].error = "none"
          /\ returned[t][1].analysis_results # NoResults
          /\ returned[u][1].error = "ValidationError"
          /\ returned[u][1].metrics_data # <<>>

\* a state in which one invocation is between alignment and metrics while
\* the other one has not yet aligned
C22_WitnessInterleaved ==
    \E t, u \in DOMAIN thread_pc :
        thread_pc[t] = "corrected" /\ thread_pc[u] = "closures_handled"
====
